---------------------------- MODULE Spec2Model ----------------------------
(***************************************************************************)
(* A model of newdoc's validation engine (src/src/validation.rs).          *)
(*                                                                         *)
(* A file is its base name and its content.  The content of the validator *)
(* specifications is the sequence of the lines that str::lines yields,    *)
(* each line a string; the byte-level conversions (str::lines itself and  *)
(* line_from_byte_no) are modelled on sequences of bytes in the           *)
(* specification SpecBytes.  A pattern is the syntax tree of the regular *)
(* expression in the source, and is matched by the matcher below on the   *)
(* characters of a line.                                                   *)
(***************************************************************************)
EXTENDS Integers, Sequences, FiniteSets, TLC

VARIABLES
    base_name,    \* validate: base name of the file being validated
    readable,     \* validate: whether fs::read_to_string succeeds
    content,      \* validate: the file's content, as its lines
    mod_type,     \* validate: the result of determine_mod_type, "none" before the call
    reports,      \* validate: the issues that the checks returned
    stdout,       \* the issues printed by report_issues, top to bottom
    status,       \* "start", then how the call ended
    definition,   \* IssueDefinition::check: the rule (self)
    findings,     \* the issues returned by the check that was called
    called,       \* the check called on its own, "none" when there is none
    bytes,        \* line_from_byte_no: the content, as its bytes
    byte_no,      \* line_from_byte_no: the byte offset sought
    line_index,   \* line_from_byte_no: the value returned
    args,         \* the arguments of the call: the command line of run, self of Input
    options,      \* the Options passed along
    disk,         \* the files of the target directory and their content
    non_populated,\* run: the modules generated, in the order of generation
    pc,           \* the statement that the call is at, "none" outside one
    loop_index,   \* run: how many elements the loop at pc has been through
    log,          \* the messages logged, oldest first
    stdin_line,   \* write_file: the line read last from the standard input
    ret           \* the value returned by the function that was called

vars ==
    <<base_name, readable, content, mod_type, reports, stdout, status,
      definition, findings, called, bytes, byte_no, line_index,
      args, options, disk, non_populated, pc, loop_index, log, stdin_line,
      ret>>

\* The variables of validate, of IssueDefinition::check and of
\* line_from_byte_no, apart from content and status.
file_vars == <<base_name, readable, mod_type, reports, stdout>>
rule_vars == <<definition, findings, called>>
byte_vars == <<bytes, byte_no, line_index>>
\* The variables of run and of the generation of modules.
run_vars ==
    <<args, options, disk, non_populated, pc, loop_index, log, stdin_line,
      ret>>

-----------------------------------------------------------------------------
(* Strings.  TLA+ strings are atoms, so the characters of every string the *)
(* model reads (file names, document lines, literals of the patterns) are  *)
(* tabulated here.                                                         *)

\* BEGIN character table
Chars ==
       ("assembly_foo.adoc" :> <<"a", "s", "s", "e", "m", "b", "l", "y", "_", "f", "o", "o", ".", "a", "d", "o", "c">>)
    @@ ("con_a.adoc" :> <<"c", "o", "n", "_", "a", ".", "a", "d", "o", "c">>)
    @@ ("proc_x.adoc" :> <<"p", "r", "o", "c", "_", "x", ".", "a", "d", "o", "c">>)
    @@ ("ref_a.adoc" :> <<"r", "e", "f", "_", "a", ".", "a", "d", "o", "c">>)
    @@ ("a.adoc" :> <<"a", ".", "a", "d", "o", "c">>)
    @@ ("assembly" :> <<"a", "s", "s", "e", "m", "b", "l", "y">>)
    @@ ("con" :> <<"c", "o", "n">>)
    @@ ("proc" :> <<"p", "r", "o", "c">>)
    @@ ("ref" :> <<"r", "e", "f">>)
    @@ (":_content-type: ASSEMBLY" :> <<":", "_", "c", "o", "n", "t", "e", "n", "t", "-", "t", "y", "p", "e", ":", " ", "A", "S", "S", "E", "M", "B", "L", "Y">>)
    @@ (":_content-type: CONCEPT" :> <<":", "_", "c", "o", "n", "t", "e", "n", "t", "-", "t", "y", "p", "e", ":", " ", "C", "O", "N", "C", "E", "P", "T">>)
    @@ (":_content-type: PROCEDURE" :> <<":", "_", "c", "o", "n", "t", "e", "n", "t", "-", "t", "y", "p", "e", ":", " ", "P", "R", "O", "C", "E", "D", "U", "R", "E">>)
    @@ (":_content-type: REFERENCE" :> <<":", "_", "c", "o", "n", "t", "e", "n", "t", "-", "t", "y", "p", "e", ":", " ", "R", "E", "F", "E", "R", "E", "N", "C", "E">>)
    @@ ("=" :> <<"=">>)
    @@ ("[[" :> <<"[", "[">>)
    @@ ("]]" :> <<"]", "]">>)
    @@ ("{" :> <<"{">>)
    @@ ("}" :> <<"}">>)
    @@ ("." :> <<".">>)
    @@ ("[id=" :> <<"[", "i", "d", "=">>)
    @@ ("]" :> <<"]">>)
    @@ ("<" :> <<"<">>)
    @@ (">" :> <<">">>)
    @@ ("</" :> <<"<", "/">>)
    @@ ("xref:" :> <<"x", "r", "e", "f", ":">>)
    @@ ("[]" :> <<"[", "]">>)
    @@ ("<<" :> <<"<", "<">>)
    @@ (">>" :> <<">", ">">>)
    @@ ("," :> <<",">>)
    @@ (":_content-type:" :> <<":", "_", "c", "o", "n", "t", "e", "n", "t", "-", "t", "y", "p", "e", ":">>)
    @@ ("ASSEMBLY" :> <<"A", "S", "S", "E", "M", "B", "L", "Y">>)
    @@ ("PROCEDURE" :> <<"P", "R", "O", "C", "E", "D", "U", "R", "E">>)
    @@ ("CONCEPT" :> <<"C", "O", "N", "C", "E", "P", "T">>)
    @@ ("REFERENCE" :> <<"R", "E", "F", "E", "R", "E", "N", "C", "E">>)
    @@ ("SNIPPET" :> <<"S", "N", "I", "P", "P", "E", "T">>)
    @@ ("[role=\"_abstract\"]" :> <<"[", "r", "o", "l", "e", "=", "\"", "_", "a", "b", "s", "t", "r", "a", "c", "t", "\"", "]">>)
    @@ ("btn:[" :> <<"b", "t", "n", ":", "[">>)
    @@ ("menu:" :> <<"m", "e", "n", "u", ":">>)
    @@ ("kbd:[" :> <<"k", "b", "d", ":", "[">>)
    @@ ("[" :> <<"[">>)
    @@ (":experimental:" :> <<":", "e", "x", "p", "e", "r", "i", "m", "e", "n", "t", "a", "l", ":">>)
    @@ ("==" :> <<"=", "=">>)
    @@ ("Additional resources" :> <<"A", "d", "d", "i", "t", "i", "o", "n", "a", "l", " ", "r", "e", "s", "o", "u", "r", "c", "e", "s">>)
    @@ ("include::" :> <<"i", "n", "c", "l", "u", "d", "e", ":", ":">>)
    @@ (".adoc" :> <<".", "a", "d", "o", "c">>)
    @@ ("snip" :> <<"s", "n", "i", "p">>)
    @@ ("/snip" :> <<"/", "s", "n", "i", "p">>)
    @@ ("common-content/" :> <<"c", "o", "m", "m", "o", "n", "-", "c", "o", "n", "t", "e", "n", "t", "/">>)
    @@ (":leveloffset:" :> <<":", "l", "e", "v", "e", "l", "o", "f", "f", "s", "e", "t", ":">>)
    @@ ("+" :> <<"+">>)
    @@ (".Additional resources" :> <<".", "A", "d", "d", "i", "t", "i", "o", "n", "a", "l", " ", "r", "e", "s", "o", "u", "r", "c", "e", "s">>)
    @@ ("Prerequisites" :> <<"P", "r", "e", "r", "e", "q", "u", "i", "s", "i", "t", "e", "s">>)
    @@ ("Related information" :> <<"R", "e", "l", "a", "t", "e", "d", " ", "i", "n", "f", "o", "r", "m", "a", "t", "i", "o", "n">>)
    @@ ("Additional information" :> <<"A", "d", "d", "i", "t", "i", "o", "n", "a", "l", " ", "i", "n", "f", "o", "r", "m", "a", "t", "i", "o", "n">>)
    @@ ("*" :> <<"*">>)
    @@ ("ifdef::" :> <<"i", "f", "d", "e", "f", ":", ":">>)
    @@ ("[*" :> <<"[", "*">>)
    @@ ("endif::[]" :> <<"e", "n", "d", "i", "f", ":", ":", "[", "]">>)
    @@ ("//" :> <<"/", "/">>)
    @@ ("link:" :> <<"l", "i", "n", "k", ":">>)
    @@ ("[role=\"_additional-resources\"]" :> <<"[", "r", "o", "l", "e", "=", "\"", "_", "a", "d", "d", "i", "t", "i", "o", "n", "a", "l", "-", "r", "e", "s", "o", "u", "r", "c", "e", "s", "\"", "]">>)
    @@ (":_content-type: concept" :> <<":", "_", "c", "o", "n", "t", "e", "n", "t", "-", "t", "y", "p", "e", ":", " ", "c", "o", "n", "c", "e", "p", "t">>)
    @@ ("[id=\"a_{context}\"]" :> <<"[", "i", "d", "=", "\"", "a", "_", "{", "c", "o", "n", "t", "e", "x", "t", "}", "\"", "]">>)
    @@ ("= T" :> <<"=", " ", "T">>)
    @@ ("Text" :> <<"T", "e", "x", "t">>)
    @@ ("" :> <<>>)
    @@ ("== Additional resources" :> <<"=", "=", " ", "A", "d", "d", "i", "t", "i", "o", "n", "a", "l", " ", "r", "e", "s", "o", "u", "r", "c", "e", "s">>)
    @@ ("* a b c d e" :> <<"*", " ", "a", " ", "b", " ", "c", " ", "d", " ", "e">>)
    @@ ("ifdef::c[* a]" :> <<"i", "f", "d", "e", "f", ":", ":", "c", "[", "*", " ", "a", "]">>)
    @@ ("include::assembly_b.adoc[]" :> <<"i", "n", "c", "l", "u", "d", "e", ":", ":", "a", "s", "s", "e", "m", "b", "l", "y", "_", "b", ".", "a", "d", "o", "c", "[", "]">>)
    @@ ("xref:a[] xref:b[]" :> <<"x", "r", "e", "f", ":", "a", "[", "]", " ", "x", "r", "e", "f", ":", "b", "[", "]">>)
    @@ ("<b>x</b>" :> <<"<", "b", ">", "x", "<", "/", "b", ">">>)
    @@ ("= T {a}" :> <<"=", " ", "T", " ", "{", "a", "}">>)
    @@ ("= T [[a]]" :> <<"=", " ", "T", " ", "[", "[", "a", "]", "]">>)
    @@ (":leveloffset: +1" :> <<":", "l", "e", "v", "e", "l", "o", "f", "f", "s", "e", "t", ":", " ", "+", "1">>)
    @@ ("* a" :> <<"*", " ", "a">>)
    @@ ("== Custom Heading" :> <<"=", "=", " ", "C", "u", "s", "t", "o", "m", " ", "H", "e", "a", "d", "i", "n", "g">>)
    @@ ("// :_content-type: REFERENCE" :> <<"/", "/", " ", ":", "_", "c", "o", "n", "t", "e", "n", "t", "-", "t", "y", "p", "e", ":", " ", "R", "E", "F", "E", "R", "E", "N", "C", "E">>)
    @@ ("[id=\"intro_{context}\"]" :> <<"[", "i", "d", "=", "\"", "i", "n", "t", "r", "o", "_", "{", "c", "o", "n", "t", "e", "x", "t", "}", "\"", "]">>)
    @@ ("[id=\"intro_{product}\"]" :> <<"[", "i", "d", "=", "\"", "i", "n", "t", "r", "o", "_", "{", "p", "r", "o", "d", "u", "c", "t", "}", "\"", "]">>)
    @@ ("[id=\"intro_{context}_{product}\"]" :> <<"[", "i", "d", "=", "\"", "i", "n", "t", "r", "o", "_", "{", "c", "o", "n", "t", "e", "x", "t", "}", "_", "{", "p", "r", "o", "d", "u", "c", "t", "}", "\"", "]">>)
    @@ ("[id=\"intro_{product}_{context}\"]" :> <<"[", "i", "d", "=", "\"", "i", "n", "t", "r", "o", "_", "{", "p", "r", "o", "d", "u", "c", "t", "}", "_", "{", "c", "o", "n", "t", "e", "x", "t", "}", "\"", "]">>)
    @@ ("[id=\"intro\"]" :> <<"[", "i", "d", "=", "\"", "i", "n", "t", "r", "o", "\"", "]">>)
    @@ (" Text" :> <<" ", "T", "e", "x", "t">>)
    @@ ("btn:[OK]" :> <<"b", "t", "n", ":", "[", "O", "K", "]">>)
    @@ ("btn:[]" :> <<"b", "t", "n", ":", "[", "]">>)
    @@ ("menu:File[Save]" :> <<"m", "e", "n", "u", ":", "F", "i", "l", "e", "[", "S", "a", "v", "e", "]">>)
    @@ ("kbd:[Enter]" :> <<"k", "b", "d", ":", "[", "E", "n", "t", "e", "r", "]">>)
    @@ ("== Prerequisites" :> <<"=", "=", " ", "P", "r", "e", "r", "e", "q", "u", "i", "s", "i", "t", "e", "s">>)
    @@ ("// c" :> <<"/", "/", " ", "c">>)
    @@ ("* a b c d" :> <<"*", " ", "a", " ", "b", " ", "c", " ", "d">>)
    @@ (" " :> <<" ">>)
    @@ ("context" :> <<"c", "o", "n", "t", "e", "x", "t">>)
    @@ ("=== Prerequisites" :> <<"=", "=", "=", " ", "P", "r", "e", "r", "e", "q", "u", "i", "s", "i", "t", "e", "s">>)
    @@ ("== Prerequisites for the upgrade" :> <<"=", "=", " ", "P", "r", "e", "r", "e", "q", "u", "i", "s", "i", "t", "e", "s", " ", "f", "o", "r", " ", "t", "h", "e", " ", "u", "p", "g", "r", "a", "d", "e">>)
    @@ ("=== Custom Heading" :> <<"=", "=", "=", " ", "C", "u", "s", "t", "o", "m", " ", "H", "e", "a", "d", "i", "n", "g">>)
    @@ ("== Related information" :> <<"=", "=", " ", "R", "e", "l", "a", "t", "e", "d", " ", "i", "n", "f", "o", "r", "m", "a", "t", "i", "o", "n">>)
    @@ ("include::snip_a.adoc[]" :> <<"i", "n", "c", "l", "u", "d", "e", ":", ":", "s", "n", "i", "p", "_", "a", ".", "a", "d", "o", "c", "[", "]">>)
    @@ ("include::modules/snip-a.adoc[]" :> <<"i", "n", "c", "l", "u", "d", "e", ":", ":", "m", "o", "d", "u", "l", "e", "s", "/", "s", "n", "i", "p", "-", "a", ".", "a", "d", "o", "c", "[", "]">>)
    @@ ("include::common-content/a.adoc[]" :> <<"i", "n", "c", "l", "u", "d", "e", ":", ":", "c", "o", "m", "m", "o", "n", "-", "c", "o", "n", "t", "e", "n", "t", "/", "a", ".", "a", "d", "o", "c", "[", "]">>)
    @@ ("include::con_a.adoc[]" :> <<"i", "n", "c", "l", "u", "d", "e", ":", ":", "c", "o", "n", "_", "a", ".", "a", "d", "o", "c", "[", "]">>)
    @@ ("include::a.txt[]" :> <<"i", "n", "c", "l", "u", "d", "e", ":", ":", "a", ".", "t", "x", "t", "[", "]">>)
    @@ ("// include::con_a.adoc[]" :> <<"/", "/", " ", "i", "n", "c", "l", "u", "d", "e", ":", ":", "c", "o", "n", "_", "a", ".", "a", "d", "o", "c", "[", "]">>)
    @@ ("snip_" :> <<"s", "n", "i", "p", "_">>)
    @@ ("snip-" :> <<"s", "n", "i", "p", "-">>)
    @@ ("/snip_" :> <<"/", "s", "n", "i", "p", "_">>)
    @@ ("/snip-" :> <<"/", "s", "n", "i", "p", "-">>)
    @@ ("(" :> <<"(">>)
    @@ (")" :> <<")">>)
    @@ ("?" :> <<"?">>)
    @@ ("!" :> <<"!">>)
    @@ ("'" :> <<"'">>)
    @@ ("\"" :> <<"\"">>)
    @@ ("#" :> <<"#">>)
    @@ ("%" :> <<"%">>)
    @@ ("&" :> <<"&">>)
    @@ ("/" :> <<"/">>)
    @@ (":" :> <<":">>)
    @@ (";" :> <<";">>)
    @@ ("@" :> <<"@">>)
    @@ ("\\" :> <<"\\">>)
    @@ ("$" :> <<"$">>)
    @@ ("^" :> <<"^">>)
    @@ ("|" :> <<"|">>)
    @@ ("[package]" :> <<"[", "p", "a", "c", "k", "a", "g", "e", "]">>)
    @@ ("[option]" :> <<"[", "o", "p", "t", "i", "o", "n", "]">>)
    @@ ("[parameter]" :> <<"[", "p", "a", "r", "a", "m", "e", "t", "e", "r", "]">>)
    @@ ("[variable]" :> <<"[", "v", "a", "r", "i", "a", "b", "l", "e", "]">>)
    @@ ("[command]" :> <<"[", "c", "o", "m", "m", "a", "n", "d", "]">>)
    @@ ("[replaceable]" :> <<"[", "r", "e", "p", "l", "a", "c", "e", "a", "b", "l", "e", "]">>)
    @@ ("[filename]" :> <<"[", "f", "i", "l", "e", "n", "a", "m", "e", "]">>)
    @@ ("[literal]" :> <<"[", "l", "i", "t", "e", "r", "a", "l", "]">>)
    @@ ("[systemitem]" :> <<"[", "s", "y", "s", "t", "e", "m", "i", "t", "e", "m", "]">>)
    @@ ("[application]" :> <<"[", "a", "p", "p", "l", "i", "c", "a", "t", "i", "o", "n", "]">>)
    @@ ("[function]" :> <<"[", "f", "u", "n", "c", "t", "i", "o", "n", "]">>)
    @@ ("[gui]" :> <<"[", "g", "u", "i", "]">>)
    @@ ("-" :> <<"-">>)
    @@ ("--" :> <<"-", "-">>)
    @@ ("-at-" :> <<"-", "a", "t", "-">>)
    @@ ("assembly_" :> <<"a", "s", "s", "e", "m", "b", "l", "y", "_">>)
    @@ ("con_" :> <<"c", "o", "n", "_">>)
    @@ ("proc_" :> <<"p", "r", "o", "c", "_">>)
    @@ ("ref_" :> <<"r", "e", "f", "_">>)
    @@ ("<path>" :> <<"<", "p", "a", "t", "h", ">">>)
    @@ ("[leveloffset=+1]" :> <<"[", "l", "e", "v", "e", "l", "o", "f", "f", "s", "e", "t", "=", "+", "1", "]">>)
    @@ ("A" :> <<"A">>)
    @@ ("b" :> <<"b">>)
    @@ ("assemblies" :> <<"a", "s", "s", "e", "m", "b", "l", "i", "e", "s">>)
    @@ ("modules" :> <<"m", "o", "d", "u", "l", "e", "s">>)
    @@ ("repo" :> <<"r", "e", "p", "o">>)
    @@ ("topic" :> <<"t", "o", "p", "i", "c">>)
    @@ ("A b" :> <<"A", " ", "b">>)
    @@ ("y" :> <<"y">>)
    @@ ("yes" :> <<"y", "e", "s">>)
    @@ ("Include modules here." :> <<"I", "n", "c", "l", "u", "d", "e", " ", "m", "o", "d", "u", "l", "e", "s", " ", "h", "e", "r", "e", ".">>)
    @@ ("y\n" :> <<"y", "\n">>)
    @@ (" YES \n" :> <<" ", "Y", "E", "S", " ", "\n">>)
    @@ ("\n" :> <<"\n">>)
    @@ ("yy\n" :> <<"y", "y", "\n">>)
    @@ (":_content-type: SNIPPET" :> <<":", "_", "c", "o", "n", "t", "e", "n", "t", "-", "t", "y", "p", "e", ":", " ", "S", "N", "I", "P", "P", "E", "T">>)
    @@ (":_content-type:CONCEPT" :> <<":", "_", "c", "o", "n", "t", "e", "n", "t", "-", "t", "y", "p", "e", ":", "C", "O", "N", "C", "E", "P", "T">>)
\* END character table

\* Option<T>: None, or Some(x).
None == <<>>
Some(x) == <<x>>

-----------------------------------------------------------------------------
(* Regular expressions (the regex crate).  A pattern is a tree; the nodes  *)
(* are the constructs the patterns of validation.rs use.                   *)

Lit(str) == <<"lit", Chars[str]>>          \* a literal string
OneOf(set) == <<"set", set>>               \* [...]
NoneOf(set) == <<"nset", set>>             \* [^...]
Cat(parts) == <<"cat", parts>>             \* concatenation
Alt(parts) == <<"alt", parts>>             \* a|b|...
Star(re) == <<"star", re>>                 \* re*
Plus(re) == Cat(<<re, Star(re)>>)          \* re+
AtLeast2(re) == Cat(<<re, re, Star(re)>>)  \* re{2,}
Bol == <<"bol">>                           \* ^
Eol == <<"eol">>                           \* $

Upper == {"A", "B", "C", "D", "E", "F", "G", "H", "I", "J", "K", "L", "M",
          "N", "O", "P", "Q", "R", "S", "T", "U", "V", "W", "X", "Y", "Z"}
Lower == {"a", "b", "c", "d", "e", "f", "g", "h", "i", "j", "k", "l", "m",
          "n", "o", "p", "q", "r", "s", "t", "u", "v", "w", "x", "y", "z"}
Digit == {"0", "1", "2", "3", "4", "5", "6", "7", "8", "9"}
White == {" ", "\t", "\n", "\r", "\f"}

Dot == NoneOf({"\n"})                      \* .
Space == OneOf(White)                      \* \s
NonSpace == NoneOf(White)                  \* \S
Alpha == OneOf(Upper \cup Lower)           \* [[:alpha:]]
Alnum == OneOf(Upper \cup Lower \cup Digit) \* [[:alnum:]]
DigitClass == OneOf(Digit)                 \* \d

RECURSIVE Ends(_, _, _, _)
RECURSIVE CatEnds(_, _, _, _, _)
RECURSIVE StarEnds(_, _, _, _, _)

\* The positions where a match of re that starts at position i of s (1-based:
\* position i is before character s[i]) can end.  ml is multi_line(true).
Ends(re, s, i, ml) ==
    CASE re[1] = "lit" ->
            LET n == Len(re[2]) IN
            IF i + n - 1 <= Len(s) /\ SubSeq(s, i, i + n - 1) = re[2]
            THEN {i + n} ELSE {}
      [] re[1] = "set" -> IF i <= Len(s) /\ s[i] \in re[2] THEN {i + 1} ELSE {}
      [] re[1] = "nset" -> IF i <= Len(s) /\ s[i] \notin re[2] THEN {i + 1} ELSE {}
      [] re[1] = "cat" -> CatEnds(re[2], 1, s, {i}, ml)
      [] re[1] = "alt" -> UNION {Ends(re[2][k], s, i, ml) : k \in DOMAIN re[2]}
      [] re[1] = "star" -> StarEnds(re[2], s, {i}, {i}, ml)
      [] re[1] = "bol" -> IF i = 1 \/ (ml /\ s[i - 1] = "\n") THEN {i} ELSE {}
      [] re[1] = "eol" ->
            IF i = Len(s) + 1 \/ (ml /\ s[i] = "\n") THEN {i} ELSE {}

\* parts[k], parts[k+1], ... matched one after the other from the positions in from.
CatEnds(parts, k, s, from, ml) ==
    IF k > Len(parts) \/ from = {} THEN from
    ELSE CatEnds(parts, k + 1, s,
                 UNION {Ends(parts[k], s, j, ml) : j \in from}, ml)

\* Zero or more matches of re: the closure of the positions reached.
StarEnds(re, s, frontier, reached, ml) ==
    LET new == UNION {Ends(re, s, j, ml) : j \in frontier} \ reached IN
    IF new = {} THEN reached
    ELSE StarEnds(re, s, new, reached \cup new, ml)

\* The start positions of the matches of re in s.
MatchStarts(re, s, ml) == {i \in 1..(Len(s) + 1) : Ends(re, s, i, ml) # {}}

\* Regex::is_match on the characters s; Regex::find(..).is_some() is the same.
IsMatchChars(re, s) == MatchStarts(re, s, FALSE) # {}

-----------------------------------------------------------------------------
(* The lines of the documents.  A document is a sequence of lines drawn    *)
(* from the lines below.                                                   *)

\* Lines of the documents that decide the module type.
TypeLines ==
    {":_content-type: ASSEMBLY", ":_content-type: CONCEPT",
     ":_content-type: PROCEDURE", ":_content-type: REFERENCE",
     ":_content-type: concept", "// :_content-type: REFERENCE",
     ":_content-type: SNIPPET", ":_content-type:CONCEPT",
     "include::assembly_b.adoc[]", "= T"}
\* Lines of the documents that exercise the checks and the report.
ReportLines ==
    {":_content-type: CONCEPT", "[id=\"a_{context}\"]", "= T",
     "[role=\"_abstract\"]", "Text", "", ".Additional resources",
     "== Additional resources", "[role=\"_additional-resources\"]",
     "* a b c d e", "ifdef::c[* a]", "include::assembly_b.adoc[]"}
\* Lines of the documents that a single rule is run on.
RuleLines ==
    {"xref:a[] xref:b[]", "<b>x</b>", "= T {a}", "= T [[a]]",
     "== Additional resources", ".Additional resources", ":leveloffset: +1",
     "include::assembly_b.adoc[]", "Text"}
\* Further lines of the documents given in full below.
ExampleLines == {"* a"}
\* Lines of the documents that the checks of the title are run on.
TitleLines ==
    {"[id=\"intro_{context}\"]", "[id=\"intro_{product}\"]",
     "[id=\"intro_{context}_{product}\"]", "[id=\"intro_{product}_{context}\"]",
     "[id=\"intro\"]", "= T", "== Custom Heading", ".Additional resources",
     "Text"}
\* Lines of the documents that the checks of the content are run on.
ContentLines ==
    {"[role=\"_abstract\"]", "Text", " Text", "", ":_content-type: CONCEPT",
     "[id=\"a_{context}\"]", "btn:[OK]", "btn:[]", "menu:File[Save]",
     "kbd:[Enter]", ":experimental:"}
\* Lines before the heading of an additional resources section, the heading,
\* and lines after it.
BeforeLines == {"[role=\"_additional-resources\"]", "Text"}
AddResHeadings == {".Additional resources", "== Additional resources"}
AfterLines ==
    {"", " ", "Text", "// c", "endif::[]", "* a b c d", "* a b c d e",
     "ifdef::c[* a]"}
\* Lines of the documents that are checked as a module and as an assembly.
HeadingLines ==
    {"= T", "== Custom Heading", "== Prerequisites",
     "== Additional resources", "Text", "=== Prerequisites",
     "== Prerequisites for the upgrade", "=== Custom Heading",
     "== Related information"}

\* Lines of the documents that the check of the includes is run on.
IncludeLines ==
    {"include::assembly_b.adoc[]", "include::con_a.adoc[]",
     "include::snip_a.adoc[]", "include::modules/snip-a.adoc[]",
     "include::common-content/a.adoc[]", "include::a.txt[]",
     "// include::con_a.adoc[]", "Text"}

AllLines ==
    IncludeLines \cup TypeLines \cup ReportLines \cup RuleLines \cup ExampleLines
    \cup TitleLines \cup ContentLines \cup BeforeLines \cup AddResHeadings
    \cup AfterLines \cup HeadingLines

\* Regex::new(pattern): the compiled pattern, as the set of the lines in
\* which it finds a match.
Regex(pattern) == {l \in AllLines : IsMatchChars(pattern, Chars[l])}

\* Regex::is_match(line), and Regex::find(line).is_some().
is_match(regex, line) == line \in regex

-----------------------------------------------------------------------------
(* The patterns of validation.rs, in the order of the source.              *)

\* r"^=\s+.*\[\[\S+\]\].*"
title_anchor_pattern ==
    Cat(<<Bol, Lit("="), Plus(Space), Star(Dot), Lit("[["), Plus(NonSpace),
          Lit("]]"), Star(Dot)>>)
\* r"^=\s+.*\{\S+\}.*"
title_attribute_pattern ==
    Cat(<<Bol, Lit("="), Plus(Space), Star(Dot), Lit("{"), Plus(NonSpace),
          Lit("}"), Star(Dot)>>)
\* r"^(\.|=+\s+)\S+.*"
any_heading_regex == Regex(Cat(<<Bol, Alt(<<Lit("."), Cat(<<Plus(Lit("=")), Plus(Space)>>)>>),
          Plus(NonSpace), Star(Dot)>>))
\* r"^=\s+\S+.*"
title_regex == Regex(Cat(<<Bol, Lit("="), Plus(Space), Plus(NonSpace), Star(Dot)>>))
\* r"\{((?:[[:alnum:]]|[-_])+)\}"
attribute_pattern ==
    Cat(<<Lit("{"), Plus(Alt(<<Alnum, OneOf({"-", "_"})>>)), Lit("}")>>)
attribute_regex == Regex(attribute_pattern)
\* r"<[[:alpha:]]+>.*</[[:alpha:]]+>"
html_pattern ==
    Cat(<<Lit("<"), Plus(Alpha), Lit(">"), Star(Dot), Lit("</"), Plus(Alpha),
          Lit(">")>>)
\* r"(?:xref:\S+\[\]|<<\S+>>|<<\S+,.+>>)"
xref_pattern ==
    Alt(<<Cat(<<Lit("xref:"), Plus(NonSpace), Lit("[]")>>),
          Cat(<<Lit("<<"), Plus(NonSpace), Lit(">>")>>),
          Cat(<<Lit("<<"), Plus(NonSpace), Lit(","), Plus(Dot), Lit(">>")>>)>>)
\* r":_content-type:\s*(?:ASSEMBLY|PROCEDURE|CONCEPT|REFERENCE|SNIPPET)"
metadata_var_pattern ==
    Cat(<<Lit(":_content-type:"), Star(Space),
          Alt(<<Lit("ASSEMBLY"), Lit("PROCEDURE"), Lit("CONCEPT"),
                Lit("REFERENCE"), Lit("SNIPPET")>>)>>)
metadata_var_regex == Regex(metadata_var_pattern)
\* r#"^\[role="_abstract"\]"#
abstract_regex == Regex(Cat(<<Bol, Lit("[role=\"_abstract\"]")>>))
\* r"^\S+[[:alpha:]].*"
paragraph_regex == Regex(Cat(<<Bol, Plus(NonSpace), Alpha, Star(Dot)>>))
\* r"(?:btn:\[.+\]|menu:\S+\[.+\]|kbd:\[.+\])"
ui_macros_regex == Regex(Alt(<<Cat(<<Lit("btn:["), Plus(Dot), Lit("]")>>),
          Cat(<<Lit("menu:"), Plus(NonSpace), Lit("["), Plus(Dot), Lit("]")>>),
          Cat(<<Lit("kbd:["), Plus(Dot), Lit("]")>>)>>))
\* r"^:experimental:", built with multi_line(true)
experimental_regex == Regex(Cat(<<Bol, Lit(":experimental:")>>))
\* r"^==\s*Additional resources\s*$"
module_add_res_pattern ==
    Cat(<<Bol, Lit("=="), Star(Space), Lit("Additional resources"),
          Star(Space), Eol>>)
\* r"^={2,}\s+\S.*"
heading_pattern ==
    Cat(<<Bol, AtLeast2(Lit("=")), Plus(Space), NonSpace, Star(Dot)>>)
heading_regex == Regex(heading_pattern)
\* r"^include::.*\.adoc"
any_include_pattern == Cat(<<Bol, Lit("include::"), Star(Dot), Lit(".adoc")>>)
any_include_regex == Regex(any_include_pattern)
\* r"^include::((snip|.*/snip)[_-]|common-content/).*\.adoc"
snip_include_pattern ==
    Cat(<<Bol, Lit("include::"),
          Alt(<<Cat(<<Alt(<<Lit("snip"), Cat(<<Star(Dot), Lit("/snip")>>)>>),
                      OneOf({"_", "-"})>>),
                Lit("common-content/")>>),
          Star(Dot), Lit(".adoc")>>)
\* r"^include::.*assembly[_-].*\.adoc"
nested_assembly_pattern ==
    Cat(<<Bol, Lit("include::"), Star(Dot), Lit("assembly"),
          OneOf({"_", "-"}), Star(Dot), Lit(".adoc")>>)
\* r"^:leveloffset:\s*\+\d*"
leveloffset_pattern ==
    Cat(<<Bol, Lit(":leveloffset:"), Star(Space), Lit("+"), Star(DigitClass)>>)
\* r"^\.Additional resources\s*$"
assembly_add_res_pattern ==
    Cat(<<Bol, Lit(".Additional resources"), Star(Space), Eol>>)
\* r"^==\s+(?:Prerequisites|Additional resources|Related information)"
standard_headings_regex == Regex(Cat(<<Bol, Lit("=="), Plus(Space),
          Alt(<<Lit("Prerequisites"), Lit("Additional resources"),
                Lit("Related information")>>)>>))
\* r"^(?:==\s+|\.)(?:Additional resources|Related information|Additional information)\s*$"
add_res_regex == Regex(Cat(<<Bol, Alt(<<Cat(<<Lit("=="), Plus(Space)>>), Lit(".")>>),
          Alt(<<Lit("Additional resources"), Lit("Related information"),
                Lit("Additional information")>>),
          Star(Space), Eol>>))
\* r"(?:^\*+\s+\S+|^ifdef::\S+\[\*+\s+\S+.*\])"
bullet_point_regex == Regex(Alt(<<Cat(<<Bol, Plus(Lit("*")), Plus(Space), Plus(NonSpace)>>),
          Cat(<<Bol, Lit("ifdef::"), Plus(NonSpace), Lit("["), Plus(Lit("*")),
                Plus(Space), Plus(NonSpace), Star(Dot), Lit("]")>>)>>))
\* r"^(?:ifdef::\S+\[.*]|endif::\[\]|//)"
allowed_paragraph == Regex(Cat(<<Bol, Alt(<<Cat(<<Lit("ifdef::"), Plus(NonSpace), Lit("["), Star(Dot),
                           Lit("]")>>),
                     Lit("endif::[]"), Lit("//")>>)>>))
\* r"^\s*$"
empty_line_regex == Regex(Cat(<<Bol, Star(Space), Eol>>))
\* r"link:\S+\[]"
link_regex == Regex(Cat(<<Lit("link:"), Plus(NonSpace), Lit("[]")>>))
\* r"^\[id=\S+\]"
id_regex == Regex(Cat(<<Bol, Lit("[id="), Plus(NonSpace), Lit("]")>>))

\* The pattern of check_additional_resource_length,
\*   r"^(?:\*+\s+(\S+.*)|ifdef::\S+\[\*+\s+(\S+.*)\])",
\* in its parts: what precedes capture group 1, the content of a group, the
\* first alternative (it holds group 1) and the second (it holds group 2).
item_before_group1 == Cat(<<Bol, Plus(Lit("*")), Plus(Space)>>)
item_group == Cat(<<Plus(NonSpace), Star(Dot)>>)
item_plain == Cat(<<item_before_group1, item_group>>)
item_in_ifdef ==
    Cat(<<Bol, Lit("ifdef::"), Plus(NonSpace), Lit("["), Plus(Lit("*")),
          Plus(Space), item_group, Lit("]")>>)
item_regex == Regex(Alt(<<item_plain, item_in_ifdef>>))
\* The lines in which the first alternative matches, so that group 1 is set.
item_with_group1 == Regex(item_plain)

\* A variant of mod_patterns with the module types before the assembly.
mod_patterns_modules_first ==
    << <<"con", ":_content-type: CONCEPT", "Concept">>,
       <<"proc", ":_content-type: PROCEDURE", "Procedure">>,
       <<"ref", ":_content-type: REFERENCE", "Reference">>,
       <<"assembly", ":_content-type: ASSEMBLY", "Assembly">> >>

\* The two halves of the condition of determine_mod_type, per module type.
mod_patterns ==
    << <<"assembly", ":_content-type: ASSEMBLY", "Assembly">>,
       <<"con", ":_content-type: CONCEPT", "Concept">>,
       <<"proc", ":_content-type: PROCEDURE", "Procedure">>,
       <<"ref", ":_content-type: REFERENCE", "Reference">> >>

-----------------------------------------------------------------------------
(* Helpers of the checks.                                                  *)

\* str::starts_with
starts_with(str, prefix) ==
    LET s == Chars[str]
        p == Chars[prefix]
    IN  Len(p) <= Len(s) /\ SubSeq(s, 1, Len(p)) = p

\* str::contains on the whole content, for a literal that holds no line
\* terminator: some line holds the literal.
contains(text, str) ==
    LET p == Chars[str] IN
    \E i \in DOMAIN text :
        LET s == Chars[text[i]] IN
        \E j \in 1..(Len(s) - Len(p) + 1) : SubSeq(s, j, j + Len(p) - 1) = p

\* Regex::find(content).is_some() for a pattern built with multi_line(true)
\* that matches no line terminator: ^ is the start of any line.
find_multi_line(re, text) == \E i \in DOMAIN text : is_match(re, text[i])

\* str::split_whitespace().count()
word_count(s) ==
    Cardinality({i \in DOMAIN s :
                    s[i] \notin White /\ (i = 1 \/ s[i - 1] \in White)})

Max(set) == CHOOSE m \in set : \A n \in set : n <= m

\* Capture group 1 of item_regex in a line that item_plain matches: the
\* repetitions before the group are greedy, and the group runs to the end
\* of the line.
item_group1(s) ==
    LET starts == {j \in Ends(item_before_group1, s, 1, FALSE) :
                      Ends(item_group, s, j, FALSE) # {}}
    IN  SubSeq(s, Max(starts), Len(s))

\* For each line that item_plain matches, the number of words of group 1.
ItemWords ==
    [l \in item_with_group1 |-> word_count(item_group1(Chars[l]))]

\* The text of the match of any_include_regex in a line (Match::as_str):
\* the greedy .* makes it end at the last ".adoc" of the line.
include_as_str(s) ==
    SubSeq(s, 1, Max(Ends(any_include_pattern, s, 1, FALSE)) - 1)

\* snip_include_regex, applied to the matched text of an include line: the
\* include lines that it matches.
snip_include_regex ==
    {l \in any_include_regex :
        IsMatchChars(snip_include_pattern, include_as_str(Chars[l]))}

-----------------------------------------------------------------------------
(* Issue definitions and issue reports.                                    *)

IssueReport(line_number, description, severity) ==
    [line_number |-> line_number, description |-> description,
     severity |-> severity]

IssueDefinition(pattern, description, severity, multiline) ==
    [pattern |-> pattern, description |-> description, severity |-> severity,
     multiline |-> multiline]

\* The outcome of a function that may panic: its value, or the panic.
Ok(v) == [panicked |-> FALSE, value |-> v]
Panic == [panicked |-> TRUE, value |-> <<>>]

\* Option<T> pushed to a Vec: `if let Some(x) = opt { v.push(x) }`.
OptToSeq(opt) == opt

\* slice[i] with the 0-based index of the source.
At(slice, i) == slice[i + 1]

\* The patterns of the rule tables, and Regex::new(self.pattern) for each.
rule_patterns ==
    {title_anchor_pattern, title_attribute_pattern, html_pattern, xref_pattern,
     module_add_res_pattern, heading_pattern, nested_assembly_pattern,
     leveloffset_pattern, assembly_add_res_pattern}
rule_regex == [p \in rule_patterns |-> Regex(p)]

RECURSIVE check_single(_, _, _)
\* The single-line branch of IssueDefinition::check: the lines from index on.
check_single(def, text, index) ==
    IF index >= Len(text) THEN <<>>
    ELSE (IF is_match(rule_regex[def.pattern], At(text, index))
          THEN <<IssueReport(Some(index), def.description, def.severity)>>
          ELSE <<>>)
         \o check_single(def, text, index + 1)

\* A variant of IssueDefinition::check that counts the lines from 1.
IssueDefinition_check_from_one(def, text) ==
    LET found == check_single(def, text, 0) IN
    [k \in DOMAIN found |->
        [found[k] EXCEPT !.line_number = Some(@[1] + 1)]]

\* IssueDefinition::check.  No definition of the rule tables sets multiline,
\* so that it is the single-line branch that runs.
IssueDefinition_check(def, text) == check_single(def, text, 0)

RECURSIVE perform_simple_tests(_, _)
perform_simple_tests(text, tests) ==
    IF tests = <<>> THEN <<>>
    ELSE IssueDefinition_check(Head(tests), text)
         \o perform_simple_tests(text, Tail(tests))

RECURSIVE find_first_from(_, _, _)
find_first_from(text, re, index) ==
    IF index >= Len(text) THEN None
    ELSE IF is_match(re, At(text, index)) THEN Some(<<index, At(text, index)>>)
    ELSE find_first_from(text, re, index + 1)

\* find_first_occurrence: Some(<<index, line>>) of the first line that matches.
find_first_occurrence(text, re) == find_first_from(text, re, 0)

find_mod_id(text) == find_first_occurrence(text, id_regex)

-----------------------------------------------------------------------------
(* mod title                                                               *)

SIMPLE_TITLE_TESTS ==
    <<IssueDefinition(title_anchor_pattern,
                      "The title contains an inline anchor.", "Error", FALSE),
      IssueDefinition(title_attribute_pattern,
                      "The title contains an attribute.", "Error", FALSE)>>

find_first_heading(text) == find_first_occurrence(text, any_heading_regex)

\* A variant of check_title_level that is content with a level-1 heading
\* anywhere in the file.
check_title_level_any_title(text) ==
    LET first == find_first_heading(text) IN
    IF first # None
    THEN IF find_first_occurrence(text, title_regex) # None
         THEN None
         ELSE Some(IssueReport(Some(first[1][1]),
                   "The first heading in the file is not level 1.", "Error"))
    ELSE Some(IssueReport(None, "The file has no title or headings.", "Error"))

check_title_level(text) ==
    LET first == find_first_heading(text) IN
    IF first # None
    THEN IF is_match(title_regex, first[1][2])
         THEN None
         ELSE Some(IssueReport(Some(first[1][1]),
                   "The first heading in the file is not level 1.", "Error"))
    ELSE Some(IssueReport(None, "The file has no title or headings.", "Error"))

\* The text of capture group 1 of the leftmost match of attribute_regex.
attribute_name(s) ==
    LET start == CHOOSE i \in MatchStarts(attribute_pattern, s, FALSE) :
                    \A j \in MatchStarts(attribute_pattern, s, FALSE) : i <= j
        end == Max(Ends(attribute_pattern, s, start, FALSE))
    IN  SubSeq(s, start + 1, end - 2)

\* The ID lines whose first attribute is not {context}.
ForeignAttribute ==
    {l \in attribute_regex :
        attribute_name(Chars[l]) # <<"c", "o", "n", "t", "e", "x", "t">>}

check_id_for_attributes(text) ==
    LET mod_id == find_mod_id(text) IN
    IF mod_id = None
    THEN Some(IssueReport(None, "The file is missing an ID.", "Error"))
    ELSE IF ~is_match(attribute_regex, mod_id[1][2]) THEN None
    ELSE IF mod_id[1][2] \notin ForeignAttribute THEN None
    ELSE Some(IssueReport(Some(mod_id[1][1]),
                          "The ID includes an attribute.", "Error"))

title_check(text) ==
    perform_simple_tests(text, SIMPLE_TITLE_TESTS)
    \o OptToSeq(check_title_level(text))
    \o OptToSeq(check_id_for_attributes(text))

-----------------------------------------------------------------------------
(* mod content                                                             *)

SIMPLE_CONTENT_TESTS ==
    <<IssueDefinition(html_pattern,
                      "The file seems to contain HTML markup", "Error", FALSE),
      IssueDefinition(xref_pattern,
                      "The file contains an unsupported cross-reference.",
                      "Error", FALSE)>>

\* A variant of check_metadata_variable that reports the misplaced attribute
\* at the line of the ID.
check_metadata_variable_at_id(text) ==
    LET metadata_var == find_first_occurrence(text, metadata_var_regex)
        mod_id == find_mod_id(text)
    IN  IF metadata_var = None
        THEN <<IssueReport(None,
                 "The module is missing the _content-type attribute.",
                 "Warning")>>
        ELSE IF mod_id # None /\ mod_id[1][1] < metadata_var[1][1]
        THEN <<IssueReport(Some(mod_id[1][1]),
                 "The _content-type attribute is located after the module ID.",
                 "Error")>>
        ELSE <<>>

check_metadata_variable(text) ==
    LET metadata_var == find_first_occurrence(text, metadata_var_regex)
        mod_id == find_mod_id(text)
    IN  (IF metadata_var = None
         THEN <<IssueReport(None,
                  "The module is missing the _content-type attribute.",
                  "Warning")>>
         ELSE <<>>)
        \o
        (IF mod_id # None /\ metadata_var # None
         THEN IF mod_id[1][1] < metadata_var[1][1]
              THEN <<IssueReport(Some(metadata_var[1][1]),
                       "The _content-type attribute is located after the module ID.",
                       "Error")>>
              ELSE <<>>
         ELSE <<>>)

check_abstract_flag(text) ==
    LET abstract_flag == find_first_occurrence(text, abstract_regex) IN
    IF abstract_flag # None
    THEN LET line_no == abstract_flag[1][1]
             no_paragraph_report ==
                 IssueReport(Some(line_no),
                   "The _abstract flag is not immediately followed by a paragraph.",
                   "Error")
         IN  \* content.lines().nth(line_no)
             IF line_no < Len(text)
             THEN IF ~is_match(paragraph_regex, At(text, line_no))
                  THEN Some(no_paragraph_report)
                  ELSE None
             ELSE Some(no_paragraph_report)
    ELSE Some(IssueReport(None,
           "The file is missing the _abstract flag. The flag is recommended but not required.",
           "Warning"))

\* A variant of check_experimental_flag that looks for the :experimental:
\* attribute only in the lines before the first macro.
check_experimental_flag_before_macro(text) ==
    LET macro == find_first_occurrence(text, ui_macros_regex) IN
    IF macro # None
    THEN IF find_multi_line(experimental_regex, SubSeq(text, 1, macro[1][1]))
         THEN None
         ELSE Some(IssueReport(Some(macro[1][1]),
                "The file uses a UI macro but the :experimental: attribute is missing.",
                "Error"))
    ELSE None

check_experimental_flag(text) ==
    LET macro == find_first_occurrence(text, ui_macros_regex) IN
    IF macro # None
    THEN IF find_multi_line(experimental_regex, text)
         THEN None
         ELSE Some(IssueReport(Some(macro[1][1]),
                \* the description, less the backquotes around :experimental:
                "The file uses a UI macro but the :experimental: attribute is missing.",
                "Error"))
    ELSE None

content_check(text) ==
    perform_simple_tests(text, SIMPLE_CONTENT_TESTS)
    \o OptToSeq(check_abstract_flag(text))
    \o OptToSeq(check_experimental_flag(text))
    \o check_metadata_variable(text)

-----------------------------------------------------------------------------
(* mod additional_resources.  lines is the content split in lines, and     *)
(* heading_index the 0-based index of the heading.                         *)

SIMPLE_ADDITIONAL_RESOURCES_TESTS == <<>>

find_additional_resources(text) == find_first_occurrence(text, add_res_regex)

\* lines[heading_index - 1] panics when heading_index is 0: the subtraction
\* overflows (a panic in a debug build), or wraps to usize::MAX, an index out
\* of range (a panic in a release build).
check_add_res_flag(lines, heading_index) ==
    IF heading_index - 1 < 0 \/ heading_index - 1 >= Len(lines) THEN Panic
    ELSE IF At(lines, heading_index - 1) = "[role=\"_additional-resources\"]"
    THEN Ok(None)
    ELSE Ok(Some(IssueReport(Some(heading_index),
           "The additional resources heading is not immediately preceded by the _additional-resources flag.",
           "Error")))

RECURSIVE paragraphs_loop(_, _, _, _)
\* The loop of check_paragraphs_in_add_res from lines[heading_index + 1 + offset]
\* on, with the issues pushed so far, and what follows the loop.
paragraphs_loop(lines, heading_index, offset, issues) ==
    LET index == heading_index + 1 + offset IN
    IF index >= Len(lines)
    THEN Append(issues,
           IssueReport(Some(heading_index),
             "The additional resources section includes no list items.",
             "Error"))
    ELSE IF is_match(bullet_point_regex, At(lines, index)) THEN issues
    ELSE IF is_match(empty_line_regex, At(lines, index))
    THEN paragraphs_loop(lines, heading_index, offset + 1,
           Append(issues,
             IssueReport(Some(heading_index + offset + 1),
               "The additional resources section includes an empty line.",
               "Error")))
    ELSE IF ~is_match(allowed_paragraph, At(lines, index))
    THEN paragraphs_loop(lines, heading_index, offset + 1,
           Append(issues,
             IssueReport(Some(heading_index + offset + 1),
               "The additional resources section includes a plain paragraph.",
               "Error")))
    ELSE paragraphs_loop(lines, heading_index, offset + 1, issues)

\* A variant of check_paragraphs_in_add_res that starts at the heading.
check_paragraphs_from_heading(lines, heading_index) ==
    paragraphs_loop(lines, heading_index - 1, 0, <<>>)

\* A variant of check_paragraphs_in_add_res that skips the line after the
\* heading.
check_paragraphs_skip_first(lines, heading_index) ==
    paragraphs_loop(lines, heading_index, 1, <<>>)

check_paragraphs_in_add_res(lines, heading_index) ==
    paragraphs_loop(lines, heading_index, 0, <<>>)

RECURSIVE link_labels_loop(_, _, _)
link_labels_loop(lines, heading_index, offset) ==
    LET index == heading_index + 1 + offset IN
    IF index >= Len(lines) THEN <<>>
    ELSE (IF is_match(link_regex, At(lines, index))
          THEN <<IssueReport(Some(heading_index + offset + 1),
                   "The additional resources section includes a link without a label.",
                   "Error")>>
          ELSE <<>>)
         \o link_labels_loop(lines, heading_index, offset + 1)

check_link_labels_in_add_res(lines, heading_index) ==
    link_labels_loop(lines, heading_index, 0)

maximum_words == 4

RECURSIVE length_loop(_, _, _, _)
\* The loop of check_additional_resource_length.  captures.get(1) is None
\* when the line matches by the second alternative of the pattern, and the
\* expect on it panics.
length_loop(lines, heading_index, offset, issues) ==
    LET index == heading_index + 1 + offset IN
    IF index >= Len(lines) THEN Ok(issues)
    ELSE IF ~is_match(item_regex, At(lines, index))
    THEN length_loop(lines, heading_index, offset + 1, issues)
    ELSE IF ~is_match(item_with_group1, At(lines, index)) THEN Panic
    ELSE IF ItemWords[At(lines, index)] > maximum_words
    THEN length_loop(lines, heading_index, offset + 1,
           Append(issues,
             IssueReport(Some(heading_index + offset + 1),
               "The additional resource is long. Try to limit it to a couple of words.",
               "Warning")))
    ELSE length_loop(lines, heading_index, offset + 1, issues)

check_additional_resource_length(lines, heading_index) ==
    length_loop(lines, heading_index, 0, <<>>)

\* What follows a call that may panic: the panic unwinds, or `rest` goes on
\* with the value returned.
Then(result, rest(_)) ==
    IF result.panicked THEN Panic ELSE rest(result.value)

\* The checks under `if let Some((index, _line)) = heading`, in their order.
add_res_section_checks(lines, index) ==
    Then(check_add_res_flag(lines, index), LAMBDA flag :
    Then(check_additional_resource_length(lines, index), LAMBDA length :
        Ok(OptToSeq(flag)
           \o check_paragraphs_in_add_res(lines, index)
           \o check_link_labels_in_add_res(lines, index)
           \o length)))

additional_resources_check(text) ==
    Then(Ok(perform_simple_tests(text, SIMPLE_ADDITIONAL_RESOURCES_TESTS)),
         LAMBDA simple :
    LET heading == find_additional_resources(text) IN
    IF heading = None THEN Ok(simple)
    ELSE Then(add_res_section_checks(text, heading[1][1]), LAMBDA section :
              Ok(simple \o section)))

-----------------------------------------------------------------------------
\* A variant of check_common that appends the issues of the title twice.
check_common_title_twice(text) ==
    Then(additional_resources_check(text), LAMBDA add_res :
        Ok(title_check(text) \o title_check(text) \o content_check(text)
           \o add_res))

\* check_common: the checks that do not depend on the module type.
check_common(text) ==
    Then(additional_resources_check(text), LAMBDA add_res :
        Ok(title_check(text) \o content_check(text) \o add_res))

-----------------------------------------------------------------------------
(* mod module                                                              *)

SIMPLE_MODULE_TESTS ==
    <<IssueDefinition(module_add_res_pattern,
        "In modules, 'Additional resources' must use the dot syntax.",
        "Error", FALSE),
      IssueDefinition(heading_pattern,
        "This heading is level-2 or greater. Be conscious of the heading level.",
        "Warning", FALSE)>>

RECURSIVE include_loop(_, _)
include_loop(text, index) ==
    IF index >= Len(text) THEN <<>>
    ELSE (IF is_match(any_include_regex, At(text, index))
          THEN IF is_match(snip_include_regex, At(text, index))
               THEN <<IssueReport(Some(index),
                        "This module includes a file that appears to be a snippet. This is supported.",
                        "Information")>>
               ELSE <<IssueReport(Some(index),
                        "This module includes a file that does not appear to be a snippet.",
                        "Error")>>
          ELSE <<>>)
         \o include_loop(text, index + 1)

\* A variant of check_include_except_snip that takes every include for a
\* snippet.
check_include_all_snippets(text) ==
    [k \in DOMAIN include_loop(text, 0) |->
        IssueReport(include_loop(text, 0)[k].line_number,
          "This module includes a file that appears to be a snippet. This is supported.",
          "Information")]

check_include_except_snip(text) == include_loop(text, 0)

module_check(text) ==
    Then(check_common(text), LAMBDA common :
        Ok(common
           \o perform_simple_tests(text, SIMPLE_MODULE_TESTS)
           \o check_include_except_snip(text)))

-----------------------------------------------------------------------------
(* mod assembly                                                            *)

SIMPLE_ASSEMBLY_TESTS ==
    <<IssueDefinition(nested_assembly_pattern,
        "This assembly includes another assembly.", "Error", FALSE),
      IssueDefinition(leveloffset_pattern,
        "Unsupported level offset configuration.", "Error", FALSE),
      IssueDefinition(assembly_add_res_pattern,
        "In assemblies, 'Additional resources' must use the == syntax.",
        "Error", FALSE)>>

RECURSIVE headings_loop(_, _)
headings_loop(text, index) ==
    IF index >= Len(text) THEN <<>>
    ELSE (IF is_match(heading_regex, At(text, index))
             /\ ~is_match(standard_headings_regex, At(text, index))
          THEN <<IssueReport(Some(index),
                   "This heading is level-2 or greater. Be conscious of the heading level.",
                   "Warning")>>
          ELSE <<>>)
         \o headings_loop(text, index + 1)

\* A variant of check_headings_in_assembly that runs the heading rule of
\* the modules, which has no standard headings.
check_headings_as_in_modules(text) ==
    perform_simple_tests(text, <<SIMPLE_MODULE_TESTS[2]>>)

check_headings_in_assembly(text) == headings_loop(text, 0)

assembly_check(text) ==
    Then(check_common(text), LAMBDA common :
        Ok(common
           \o perform_simple_tests(text, SIMPLE_ASSEMBLY_TESTS)
           \o check_headings_in_assembly(text)))

-----------------------------------------------------------------------------
(* determine_mod_type, report_issues and validate                          *)

\* enum ModTypeOrReport
Type(module_type) == [tag |-> "Type", type |-> module_type, report |-> None]
Report(report) == [tag |-> "Report", type |-> "Report", report |-> Some(report)]

type_report == IssueReport(None, "Cannot determine the module type.", "Error")

RECURSIVE mod_type_loop(_, _, _)
\* The loop of determine_mod_type from mod_patterns[k] on, and what follows it.
mod_type_loop(name, text, k) ==
    IF k > Len(mod_patterns) THEN Report(type_report)
    ELSE IF starts_with(name, mod_patterns[k][1])
            \/ contains(text, mod_patterns[k][2])
    THEN Type(mod_patterns[k][3])
    ELSE mod_type_loop(name, text, k + 1)

\* A variant that looks for the markers in the content before it looks at
\* the prefix of the base name.
determine_mod_type_markers_first(name, text) ==
    IF \E k \in DOMAIN mod_patterns : contains(text, mod_patterns[k][2])
    THEN mod_type_loop("", text, 1)
    ELSE mod_type_loop(name, text, 1)

determine_mod_type(name, text) == mod_type_loop(name, text, 1)

\* The key of sort_by_key: Option<usize> orders None before every Some(n).
KeyLess(a, b) ==
    \/ a = None /\ b # None
    \/ a # None /\ b # None /\ a[1] < b[1]

RECURSIVE insert_sorted(_, _)
\* issue inserted in a sorted list, after the issues whose key is not greater.
insert_sorted(sorted, issue) ==
    IF sorted = <<>> THEN <<issue>>
    ELSE IF KeyLess(issue.line_number, Head(sorted).line_number)
    THEN <<issue>> \o sorted
    ELSE <<Head(sorted)>> \o insert_sorted(Tail(sorted), issue)

RECURSIVE sort_from(_, _, _)
sort_from(issues, k, sorted) ==
    IF k > Len(issues) THEN sorted
    ELSE sort_from(issues, k + 1, insert_sorted(sorted, issues[k]))

\* Vec::sort_by_key(|report| report.line_number), a stable sort.
sort_by_key(issues) == sort_from(issues, 1, <<>>)

no_issues_report ==
    IssueReport(None, "No issues found in this file.", "Information")

\* A variant of report_issues that prints the issues in the order of the
\* checks, and one that prints nothing when there is no issue.
report_issues_unsorted(issues) ==
    IF issues = <<>> THEN <<no_issues_report>> ELSE issues
report_issues_without_fallback(issues) == sort_by_key(issues)

\* report_issues: the issues it prints, top to bottom.
report_issues(issues) ==
    sort_by_key(IF issues = <<>> THEN <<no_issues_report>> ELSE issues)

\* The `reports` of validate for a determined mod_type: its value, or the panic.
reports_of(determined, text) ==
    IF determined.tag = "Type" /\ determined.type = "Assembly"
    THEN assembly_check(text)
    ELSE IF determined.tag = "Report"
    THEN Then(check_common(text), LAMBDA common :
              Ok(Append(common, determined.report[1])))
    ELSE module_check(text)

\* validate(file_name)
Validate ==
    /\ status = "start"
    /\ IF ~readable
       THEN /\ status' = "read_error"
            /\ UNCHANGED <<mod_type, reports, stdout>>
       ELSE \E determined \in {determine_mod_type(base_name, content)} :
            \E checked \in {reports_of(determined, content)} :
                /\ mod_type' = determined.type
                /\ IF checked.panicked
                   THEN status' = "panicked" /\ UNCHANGED <<reports, stdout>>
                   ELSE /\ status' = "reported"
                        /\ reports' = checked.value
                        /\ stdout' = report_issues(checked.value)
    /\ UNCHANGED <<base_name, readable, content, rule_vars, byte_vars, run_vars>>

-----------------------------------------------------------------------------
(* The files validated.                                                    *)

MaxLines == 3

\* The sequences of at most n elements of set.
SeqsUpTo(set, n) == UNION {[1..k -> set] : k \in 0..n}

BaseNames ==
    {"assembly_foo.adoc", "con_a.adoc", "proc_x.adoc", "ref_a.adoc", "a.adoc"}
ReportBaseNames == {"assembly_foo.adoc", "proc_x.adoc", "a.adoc"}

\* A module and an assembly that the checks find nothing in, and the
\* additional resources section of three empty lines and a list item.
clean_module ==
    <<":_content-type: CONCEPT", "[id=\"a_{context}\"]", "= T",
      "[role=\"_abstract\"]", "Text">>
clean_assembly ==
    <<":_content-type: CONCEPT", "[id=\"a_{context}\"]", "= T",
      "[role=\"_abstract\"]", "Text", "[role=\"_additional-resources\"]",
      "== Additional resources", "* a">>
three_empty_lines ==
    <<"= T", "[role=\"_additional-resources\"]", ".Additional resources",
      "", "", "", "* a b c d e">>

Files ==
    (BaseNames \X SeqsUpTo(TypeLines, MaxLines))
    \cup (ReportBaseNames \X SeqsUpTo(ReportLines, MaxLines))
    \cup (ReportBaseNames \X {clean_module, clean_assembly, three_empty_lines})

\* No call of IssueDefinition::check, and none of line_from_byte_no.
NoRule == definition = <<>> /\ findings = <<>> /\ called = "none"
NoBytes == bytes = <<>> /\ byte_no = 0 /\ line_index = None
\* No call of run, and no generation of a module.
NoRun ==
    /\ args = <<>> /\ options = <<>> /\ disk = <<>>
    /\ non_populated = <<>> /\ pc = "none" /\ loop_index = 0
    /\ log = <<>> /\ stdin_line = None /\ ret = <<>>
\* No call of validate.
NoFile ==
    /\ base_name = "a.adoc" /\ readable = TRUE /\ mod_type = "none"
    /\ reports = <<>> /\ stdout = <<>>

Init ==
    /\ \E file \in Files :
          /\ base_name = file[1]
          /\ \/ readable = TRUE /\ content = file[2]
             \/ readable = FALSE /\ content = <<>> /\ file[2] = <<>>
    /\ mod_type = "none"
    /\ reports = <<>>
    /\ stdout = <<>>
    /\ status = "start"
    /\ NoRule
    /\ NoBytes
    /\ NoRun

Next == Validate

Spec == Init /\ [][Next]_vars

-----------------------------------------------------------------------------
(* Properties of validate.                                                 *)

\* validate got past the reading of the file: it printed a report, or a
\* check panicked.
Validated == status \in {"reported", "panicked"}

Range(seq) == {seq[k] : k \in DOMAIN seq}
Count(seq, x) == Cardinality({k \in DOMAIN seq : seq[k] = x})
\* The same issues, the same number of times each, in whatever order.
SameIssues(a, b) ==
    /\ Len(a) = Len(b)
    /\ \A x \in Range(a) \cup Range(b) : Count(a, x) = Count(b, x)

\* The prefixes of the base name and the markers of the content, each with
\* its type, in the order Assembly, Concept, Procedure, Reference.
PrefixTypes ==
    <<<<"assembly", "Assembly">>, <<"con", "Concept">>,
      <<"proc", "Procedure">>, <<"ref", "Reference">>>>
MarkerTypes ==
    <<<<":_content-type: ASSEMBLY", "Assembly">>,
      <<":_content-type: CONCEPT", "Concept">>,
      <<":_content-type: PROCEDURE", "Procedure">>,
      <<":_content-type: REFERENCE", "Reference">>>>

NameHasPrefix(prefix) ==
    LET name == Chars[base_name]
        p == Chars[prefix]
    IN  Len(p) <= Len(name) /\ \A i \in 1..Len(p) : name[i] = p[i]
NoPrefix == \A k \in 1..4 : ~NameHasPrefix(PrefixTypes[k][1])

\* The lines that hold each marker, character for character.
MarkerLines == [k \in 1..4 |-> Regex(Lit(MarkerTypes[k][1]))]
ContentHolds(k) == \E i \in DOMAIN content : content[i] \in MarkerLines[k]
NoMarker == \A k \in 1..4 : ~ContentHolds(k)

\* The descriptions of the issues that only module::check reports, and of
\* those that only assembly::check reports.
ModuleOnly ==
    {"In modules, 'Additional resources' must use the dot syntax.",
     "This module includes a file that appears to be a snippet. This is supported.",
     "This module includes a file that does not appear to be a snippet."}
AssemblyOnly ==
    {"This assembly includes another assembly.",
     "Unsupported level offset configuration.",
     "In assemblies, 'Additional resources' must use the == syntax."}
Descriptions(issues) == {issues[k].description : k \in DOMAIN issues}

\* C1: whenever the base name starts with one of the prefixes assembly, con,
\* proc, ref, the resolved type is the type of that prefix, whatever markers
\* the content holds.
C1_PrefixWinsOverContent ==
    Validated =>
        \A k \in 1..4 :
            NameHasPrefix(PrefixTypes[k][1]) => mod_type = PrefixTypes[k][2]

\* C2: a file named assembly_foo.adoc whose content holds the CONCEPT marker
\* resolves to Assembly; the report printed for it holds the Error "This
\* assembly includes another assembly." at every line that includes an
\* assembly, and no issue that only modules get.
C2_AssemblyPrefixConceptMarker ==
    (Validated /\ base_name = "assembly_foo.adoc" /\ ContentHolds(2)) =>
        /\ mod_type = "Assembly"
        /\ status = "reported" =>
              /\ \A i \in DOMAIN content :
                    content[i] = "include::assembly_b.adoc[]" =>
                        [line_number |-> Some(i - 1),
                         description |-> "This assembly includes another assembly.",
                         severity |-> "Error"] \in Range(stdout)
              /\ Descriptions(stdout) \cap ModuleOnly = {}

\* A report for assembly_foo.adoc with the CONCEPT marker and an include of
\* an assembly, that holds the Error.
C2_Witness ==
    /\ status = "reported"
    /\ base_name = "assembly_foo.adoc"
    /\ ContentHolds(2)
    /\ \E i \in DOMAIN content : content[i] = "include::assembly_b.adoc[]"
    /\ "This assembly includes another assembly." \in Descriptions(stdout)

\* The type of the first marker, in the order Assembly, Concept, Procedure,
\* Reference, that the content holds.
FirstMarkerType ==
    IF NoMarker THEN "Report"
    ELSE MarkerTypes[CHOOSE k \in 1..4 :
                        ContentHolds(k) /\ \A j \in 1..(k - 1) : ~ContentHolds(j)][2]

\* C3: when the base name starts with none of the prefixes, the resolved type
\* is that of the first marker, in the order Assembly, Concept, Procedure,
\* Reference, that the content holds in its exact upper-case spelling, and no
\* type is resolved when it holds none.
C3_MarkerClassifies ==
    (Validated /\ NoPrefix) => mod_type = FirstMarkerType

\* A file with no prefix that holds a lower-case marker, then the REFERENCE
\* marker inside a comment line, then the PROCEDURE marker: Procedure.
C3_Witness ==
    /\ Validated
    /\ NoPrefix
    /\ content = <<":_content-type: concept", "// :_content-type: REFERENCE",
                   ":_content-type: PROCEDURE">>
    /\ mod_type = "Procedure"

\* C4: when neither the prefix nor a marker determines the type, validate
\* prints a report, whose issues are those of the common checks and one
\* "Cannot determine the module type." Error with no line number, and no
\* issue that only modules or only assemblies get.
C4_UntypedIsNotFatal ==
    (readable /\ status # "start" /\ NoPrefix /\ NoMarker) =>
        /\ status = "reported"
        /\ ~check_common(content).panicked
        /\ SameIssues(stdout,
              Append(check_common(content).value,
                     [line_number |-> None,
                      description |-> "Cannot determine the module type.",
                      severity |-> "Error"]))
        /\ Descriptions(stdout) \cap (ModuleOnly \cup AssemblyOnly) = {}

\* C5: for every readable file, whatever its content, validate runs the
\* checks to completion and prints a report.
C5_NoContentAborts ==
    (readable /\ status # "start") => status = "reported"

\* C6: in the printed report every issue with no line number comes before
\* every issue with one, and the line numbers do not decrease.
C6_ReportIsSorted ==
    status = "reported" =>
        \A i, j \in DOMAIN stdout :
            i < j =>
                \/ stdout[i].line_number = None
                \/ /\ stdout[j].line_number # None
                   /\ stdout[i].line_number[1] <= stdout[j].line_number[1]

\* A report that the sort reordered, with an issue with no line number and
\* issues at two different lines.
C6_Witness ==
    /\ status = "reported"
    /\ stdout # reports
    /\ \E i, j, k \in DOMAIN stdout :
          /\ stdout[i].line_number = None
          /\ stdout[j].line_number # None /\ stdout[k].line_number # None
          /\ stdout[j].line_number # stdout[k].line_number

\* C7: the report holds "No issues found in this file." exactly when the
\* checks returned no issue, and then holds nothing else; the report is never
\* empty; the report of a file of undetermined type never holds it.
C7_NoIssuesFallback ==
    status = "reported" =>
        LET synthetic == [line_number |-> None,
                          description |-> "No issues found in this file.",
                          severity |-> "Information"]
        IN  /\ synthetic \in Range(stdout) <=> reports = <<>>
            /\ reports = <<>> => stdout = <<synthetic>>
            /\ reports # <<>> => SameIssues(stdout, reports)
            /\ Len(stdout) >= 1
            /\ mod_type = "Report" => synthetic \notin Range(stdout)

\* A report for a file in which the checks found nothing.
C7_Witness ==
    /\ status = "reported"
    /\ reports = <<>>
    /\ Len(stdout) = 1
    /\ stdout[1].description = "No issues found in this file."

\* C8: no two issues of a printed report have the same line number, the same
\* description and the same severity.
C8_NoDuplicateIssues ==
    status = "reported" =>
        \A i, j \in DOMAIN stdout : i # j => stdout[i] # stdout[j]

\* A report with two issues at the same line and of the same severity, that
\* differ in their description alone.
C8_Witness ==
    /\ status = "reported"
    /\ \E i, j \in DOMAIN stdout :
          /\ i # j
          /\ stdout[i].line_number # None
          /\ stdout[i].line_number = stdout[j].line_number
          /\ stdout[i].severity = stdout[j].severity
          /\ stdout[i].description # stdout[j].description

-----------------------------------------------------------------------------
(* IssueDefinition::check on its own: a rule of the tables, run on a       *)
(* document.                                                               *)

MaxRuleLines == 3

\* The rules of the four tables.
Rules ==
    Range(SIMPLE_TITLE_TESTS) \cup Range(SIMPLE_CONTENT_TESTS)
    \cup Range(SIMPLE_ADDITIONAL_RESOURCES_TESTS)
    \cup Range(SIMPLE_MODULE_TESTS) \cup Range(SIMPLE_ASSEMBLY_TESTS)

InitRule ==
    /\ definition \in Rules
    /\ content \in SeqsUpTo(RuleLines, MaxRuleLines)
    /\ findings = <<>>
    /\ called = "none"
    /\ status = "start"
    /\ NoFile
    /\ NoBytes
    /\ NoRun

\* definition.check(content)
Check ==
    /\ status = "start"
    /\ findings' = IssueDefinition_check(definition, content)
    /\ status' = "checked"
    /\ UNCHANGED <<content, definition, called, file_vars, byte_vars, run_vars>>

NextRule == Check

SpecRule == InitRule /\ [][NextRule]_vars

\* For each pattern of the rules, the lines in which the matcher finds a
\* match that starts at some position.
LinesWithMatch ==
    [p \in rule_patterns |->
        {l \in RuleLines : MatchStarts(p, Chars[l], FALSE) # {}}]

\* C9: the check of a single-line rule returns one issue for each line that
\* holds a match of the pattern, however many matches the line holds, with
\* the 0-based index of the line and the description and severity of the
\* rule, in the order of the lines; and nothing when no line holds a match.
C9_OneIssuePerMatchingLine ==
    status = "checked" =>
        LET matching == {i \in 0..(Len(content) - 1) :
                            content[i + 1] \in LinesWithMatch[definition.pattern]}
        IN  /\ Len(findings) = Cardinality(matching)
            /\ \A k \in DOMAIN findings :
                  /\ findings[k].line_number # None
                  /\ findings[k].line_number[1] \in matching
                  /\ findings[k].description = definition.description
                  /\ findings[k].severity = definition.severity
            /\ \A k \in 1..(Len(findings) - 1) :
                  findings[k].line_number[1] < findings[k + 1].line_number[1]

\* The cross-reference rule run on a line with no match and then two lines
\* with two matches each: one issue for each of the two lines.
C9_Witness ==
    /\ status = "checked"
    /\ definition.pattern = xref_pattern
    /\ content = <<"Text", "xref:a[] xref:b[]", "xref:a[] xref:b[]">>
    /\ Cardinality(MatchStarts(xref_pattern, Chars["xref:a[] xref:b[]"], FALSE)) = 2
    /\ Len(findings) = 2
    /\ findings[1].line_number = Some(1)
    /\ findings[2].line_number = Some(2)

-----------------------------------------------------------------------------
(* line_from_byte_no on its own.  The content is a sequence of bytes.      *)

MaxBytes == 5

\* The bytes of the contents: a letter and the bytes of the line terminators.
Bytes == {"a", "\r", "\n"}

RECURSIVE split_lines(_, _)
\* str::lines from byte position `from` on (1-based): the lines end at "\n",
\* which is left out together with one "\r" before it; a last line without
\* terminator is a line too (a "\r" that ends it stays in it), and nothing
\* follows a final terminator.
split_lines(s, from) ==
    IF from > Len(s) THEN <<>>
    ELSE LET ends == {k \in from..Len(s) : s[k] = "\n"} IN
         IF ends = {} THEN <<SubSeq(s, from, Len(s))>>
         ELSE LET end == CHOOSE k \in ends : \A j \in ends : k <= j
                  last == IF end > from /\ s[end - 1] = "\r"
                          THEN end - 2 ELSE end - 1
              IN  <<SubSeq(s, from, last)>> \o split_lines(s, end + 1)

str_lines(s) == split_lines(s, 1)

RECURSIVE lines_loop(_, _, _, _)
\* The outer loop of line_from_byte_no from lines[line] on (0-based), with
\* the value of total_bytes: one is added for the line, then one for each
\* of its bytes, and total_bytes is compared with byte_no after each of the
\* latter.
lines_loop(lines, line, total_bytes, seek) ==
    IF line >= Len(lines) THEN None
    ELSE LET n == Len(At(lines, line)) IN
         IF seek \in (total_bytes + 2)..(total_bytes + 1 + n)
         THEN Some(line)
         ELSE lines_loop(lines, line + 1, total_bytes + 1 + n, seek)

line_from_byte_no(s, seek) == lines_loop(str_lines(s), 0, 0, seek)

InitBytes ==
    /\ bytes \in SeqsUpTo(Bytes, MaxBytes)
    /\ byte_no \in 0..(MaxBytes + 1)
    /\ line_index = None
    /\ status = "start"
    /\ content = <<>>
    /\ NoFile
    /\ NoRule
    /\ NoRun

\* line_from_byte_no(content, byte_no)
LineFromByteNo ==
    /\ status = "start"
    /\ line_index' = line_from_byte_no(bytes, byte_no)
    /\ status' = "converted"
    /\ UNCHANGED <<content, bytes, byte_no, file_vars, rule_vars, run_vars>>

NextBytes == LineFromByteNo

SpecBytes == InitBytes /\ [][NextBytes]_vars

\* C10: for a byte offset inside the content, line_from_byte_no returns the
\* 0-based index of the line that holds the byte, which is the number of
\* line terminators before the offset; it returns None for an offset outside
\* the content, and only then.
C10_LineOfByte ==
    status = "converted" =>
        line_index =
            IF byte_no < Len(bytes)
            THEN Some(Cardinality({k \in 1..byte_no : bytes[k] = "\n"}))
            ELSE None

-----------------------------------------------------------------------------
(* The checks of mod title on their own.                                   *)

MaxTitleLines == 3

\* No call of validate, of a rule or of line_from_byte_no: the variables of
\* a check called on its own are content, called, findings and status.
NoOther ==
    /\ NoFile
    /\ NoBytes
    /\ NoRun
    /\ definition = <<>>

InitTitle ==
    /\ content \in SeqsUpTo(TitleLines, MaxTitleLines)
    /\ called = "none"
    /\ findings = <<>>
    /\ status = "start"
    /\ NoOther

\* The variables that a check called on its own leaves alone.
other_vars == <<content, definition, file_vars, byte_vars, run_vars>>

\* title::check_title_level(content)
CheckTitleLevel ==
    /\ status = "start"
    /\ called' = "check_title_level"
    /\ findings' = OptToSeq(check_title_level(content))
    /\ status' = "returned"
    /\ UNCHANGED other_vars

\* title::check_id_for_attributes(content)
CheckIdForAttributes ==
    /\ status = "start"
    /\ called' = "check_id_for_attributes"
    /\ findings' = OptToSeq(check_id_for_attributes(content))
    /\ status' = "returned"
    /\ UNCHANGED other_vars

NextTitle == CheckTitleLevel \/ CheckIdForAttributes

SpecTitle == InitTitle /\ [][NextTitle]_vars

\* The 0-based indices of the lines of the content that belong to `lines`.
IndicesOf(lines) == {i \in 0..(Len(content) - 1) : At(content, i) \in lines}
Min(set) == CHOOSE m \in set : \A n \in set : m <= n

\* The check `name` returned: nothing, or one issue and no more.
ReturnedBy(name) == status = "returned" /\ called = name
Nothing == findings = <<>>
OneIssue(severity, line_number) ==
    /\ Len(findings) = 1
    /\ findings[1].severity = severity
    /\ findings[1].line_number = line_number

\* The lines that begin with an ID declaration: "[id=", characters other
\* than white space, "]".
IdLines ==
    {l \in AllLines :
        \E k \in 6..Len(Chars[l]) :
            /\ SubSeq(Chars[l], 1, 4) = <<"[", "i", "d", "=">>
            /\ Chars[l][k] = "]"
            /\ \A j \in 5..(k - 1) : Chars[l][j] \notin White}
\* The names of the attribute references {name} in a line.
AttributeNames(l) ==
    {SubSeq(Chars[l], i + 1, Max(Ends(attribute_pattern, Chars[l], i, FALSE)) - 2) :
        i \in MatchStarts(attribute_pattern, Chars[l], FALSE)}

\* C11: check_id_for_attributes returns one Error with no line number when
\* the document has no ID line; otherwise it returns one Error at the line
\* of the first ID declaration if that ID holds an attribute reference
\* whose name is not "context" (also when it holds {context} as well), and
\* nothing if it holds none.
C11_IdAttributes ==
    ReturnedBy("check_id_for_attributes") =>
        IF IndicesOf(IdLines) = {} THEN OneIssue("Error", None)
        ELSE LET first == Min(IndicesOf(IdLines)) IN
             IF AttributeNames(At(content, first)) \subseteq {Chars["context"]}
             THEN Nothing
             ELSE OneIssue("Error", Some(first))

\* The level of a heading line: the number of the "=" that begin it, when
\* white space and then another character follow them; 0 for other lines.
LeadingEquals(s) == Max({n \in 0..Len(s) : \A j \in 1..n : s[j] = "="})
HeadingLevel(l) ==
    LET s == Chars[l]
        n == LeadingEquals(s)
    IN  IF /\ n >= 1
           /\ \E k \in (n + 2)..Len(s) :
                 /\ s[k] \notin White
                 /\ \A j \in (n + 1)..(k - 1) : s[j] \in White
        THEN n ELSE 0
\* The block titles: a dot and then a character other than white space.
BlockTitles ==
    {l \in AllLines :
        /\ Len(Chars[l]) >= 2
        /\ Chars[l][1] = "."
        /\ Chars[l][2] \notin White}
HeadingLikeLines == {l \in AllLines : HeadingLevel(l) >= 1} \cup BlockTitles

\* C15: check_title_level returns one Error with no line number, 'The file
\* has no title or headings.', when no line is a heading or a block title;
\* one Error at the first such line when it is not a level-1 heading; and
\* nothing when it is one, whatever headings follow.
C15_TitleLevel ==
    ReturnedBy("check_title_level") =>
        IF IndicesOf(HeadingLikeLines) = {}
        THEN /\ OneIssue("Error", None)
             /\ findings[1].description = "The file has no title or headings."
        ELSE LET first == Min(IndicesOf(HeadingLikeLines)) IN
             IF HeadingLevel(At(content, first)) = 1 THEN Nothing
             ELSE OneIssue("Error", Some(first))

\* A block title before the level-1 heading: one Error, at the block title.
C15_Witness ==
    /\ ReturnedBy("check_title_level")
    /\ content = <<"Text", ".Additional resources", "= T">>
    /\ OneIssue("Error", Some(1))

-----------------------------------------------------------------------------
(* The checks of mod content on their own.                                 *)

MaxContentLines == 3

InitContent ==
    /\ content \in SeqsUpTo(ContentLines, MaxContentLines)
    /\ called = "none"
    /\ findings = <<>>
    /\ status = "start"
    /\ NoOther

\* content::check_abstract_flag(content)
CheckAbstractFlag ==
    /\ status = "start"
    /\ called' = "check_abstract_flag"
    /\ findings' = OptToSeq(check_abstract_flag(content))
    /\ status' = "returned"
    /\ UNCHANGED other_vars

\* content::check_metadata_variable(content)
CheckMetadataVariable ==
    /\ status = "start"
    /\ called' = "check_metadata_variable"
    /\ findings' = check_metadata_variable(content)
    /\ status' = "returned"
    /\ UNCHANGED other_vars

\* content::check_experimental_flag(content)
CheckExperimentalFlag ==
    /\ status = "start"
    /\ called' = "check_experimental_flag"
    /\ findings' = OptToSeq(check_experimental_flag(content))
    /\ status' = "returned"
    /\ UNCHANGED other_vars

NextContent ==
    CheckAbstractFlag \/ CheckMetadataVariable \/ CheckExperimentalFlag

SpecContent == InitContent /\ [][NextContent]_vars

\* The lines that begin with the abstract flag.
AbstractLines == {l \in AllLines : starts_with(l, "[role=\"_abstract\"]")}
\* The lines that look like the start of a paragraph: characters other than
\* white space from the first one on, a letter among them after the first.
ParagraphStarts ==
    {l \in AllLines :
        \E k \in 2..Len(Chars[l]) :
            /\ Chars[l][k] \in Upper \cup Lower
            /\ \A j \in 1..k : Chars[l][j] \notin White}

\* C12: when the document has an abstract flag, at line k the first,
\* check_abstract_flag returns the Error 'The _abstract flag is not
\* immediately followed by a paragraph.' at line k if line k+1 does not exist
\* or does not look like the start of a paragraph, and nothing if line k+1
\* starts a paragraph.
C12_AbstractFollowedByParagraph ==
    ReturnedBy("check_abstract_flag") /\ IndicesOf(AbstractLines) # {} =>
        LET k == Min(IndicesOf(AbstractLines)) IN
        IF k + 1 >= Len(content) \/ At(content, k + 1) \notin ParagraphStarts
        THEN /\ OneIssue("Error", Some(k))
             /\ findings[1].description =
                  "The _abstract flag is not immediately followed by a paragraph."
        ELSE Nothing

\* The lines that hold the attribute that declares the type of the module.
MetadataLines == {":_content-type: CONCEPT"}

MacroLines == {"btn:[OK]", "menu:File[Save]", "kbd:[Enter]"}
ExperimentalLines == {l \in AllLines : starts_with(l, ":experimental:")}

\* C14: check_experimental_flag returns an issue if and only if the document
\* holds a UI macro and no line of it begins with :experimental:, wherever
\* that line would be; the issue is one Error at the line of the first
\* macro.
C14_ExperimentalFlag ==
    ReturnedBy("check_experimental_flag") =>
        IF IndicesOf(MacroLines) # {} /\ IndicesOf(ExperimentalLines) = {}
        THEN OneIssue("Error", Some(Min(IndicesOf(MacroLines))))
        ELSE Nothing

\* Two macros and no :experimental: line: one Error, at the first macro.
C14_Witness ==
    /\ ReturnedBy("check_experimental_flag")
    /\ content = <<"btn:[]", "kbd:[Enter]", "menu:File[Save]">>
    /\ OneIssue("Error", Some(1))

-----------------------------------------------------------------------------
(* The checks of an additional resources section on their own, called as   *)
(* additional_resources::check calls them: on the lines of the content and *)
(* the index of the first heading of such a section.                       *)

MaxAfterLines == 4

\* The documents: at most one line, the heading, and the lines after it.
InitAddRes ==
    /\ \E before \in SeqsUpTo(BeforeLines, 1), heading \in AddResHeadings,
          after \in SeqsUpTo(AfterLines, MaxAfterLines) :
            content = before \o <<heading>> \o after
    /\ called = "none"
    /\ findings = <<>>
    /\ status = "start"
    /\ NoOther

\* The index of the heading, as additional_resources::check finds it.
heading_index == find_additional_resources(content)[1][1]

\* additional_resources::check_add_res_flag(&lines, index)
CheckAddResFlag ==
    /\ status = "start"
    /\ find_additional_resources(content) # None
    /\ called' = "check_add_res_flag"
    /\ \E result \in {check_add_res_flag(content, heading_index)} :
          IF result.panicked
          THEN findings' = <<>> /\ status' = "panicked"
          ELSE findings' = OptToSeq(result.value) /\ status' = "returned"
    /\ UNCHANGED other_vars

\* additional_resources::check_paragraphs_in_add_res(&lines, index)
CheckParagraphsInAddRes ==
    /\ status = "start"
    /\ find_additional_resources(content) # None
    /\ called' = "check_paragraphs_in_add_res"
    /\ findings' = check_paragraphs_in_add_res(content, heading_index)
    /\ status' = "returned"
    /\ UNCHANGED other_vars

\* additional_resources::check_additional_resource_length(&lines, index)
CheckAdditionalResourceLength ==
    /\ status = "start"
    /\ find_additional_resources(content) # None
    /\ called' = "check_additional_resource_length"
    /\ \E result \in {check_additional_resource_length(content, heading_index)} :
          IF result.panicked
          THEN findings' = <<>> /\ status' = "panicked"
          ELSE findings' = result.value /\ status' = "returned"
    /\ UNCHANGED other_vars

NextAddRes ==
    CheckAddResFlag \/ CheckParagraphsInAddRes \/ CheckAdditionalResourceLength

SpecAddRes == InitAddRes /\ [][NextAddRes]_vars

\* The check `name` came to an end, by a return or by a panic.
EndedBy(name) == status \in {"returned", "panicked"} /\ called = name
\* The index of the heading of the section: the first line that is one of
\* the headings.
h == Min(IndicesOf(AddResHeadings))

\* C16: check_add_res_flag returns one Error at the line of the heading, h,
\* if and only if the line before the heading is not exactly
\* [role="_additional-resources"]; when the heading is the first line of the
\* document (h = 0) no line precedes it, and the function returns that
\* Error at line 0.
C16_FlagBeforeHeading ==
    EndedBy("check_add_res_flag") =>
        /\ status = "returned"
        /\ IF h > 0 /\ At(content, h - 1) = "[role=\"_additional-resources\"]"
           THEN Nothing
           ELSE OneIssue("Error", Some(h))

\* The lines of white space only, the list items (plain, or wrapped in an
\* ifdef), and the lines that are let through: a comment, or an endif.
BlankLines == {l \in AllLines : \A k \in DOMAIN Chars[l] : Chars[l][k] \in White}
PlainItems == {"* a", "* a b c d", "* a b c d e"}
WrappedItems == {"ifdef::c[* a]"}
ListItems == PlainItems \cup WrappedItems
LetThrough == {"// c", "endif::[]"}

\* The indices of the lines after the heading and before the first list
\* item (before the end of the document when there is no list item).
BeforeFirstItem ==
    LET items == {i \in IndicesOf(ListItems) : i > h} IN
    {i \in (h + 1)..(Len(content) - 1) : \A j \in items : i < j}
\* The issues returned, as pairs of line number and description.
Issued ==
    {<<findings[k].line_number, findings[k].description>> : k \in DOMAIN findings}
Errors == \A k \in DOMAIN findings : findings[k].severity = "Error"

ThreeBlankLinesThenItem ==
    /\ Len(content) = h + 5
    /\ \A i \in (h + 1)..(h + 3) : At(content, i) \in BlankLines
    /\ At(content, h + 4) \in ListItems
\* The number of the issues returned that have the description.
Described(description) ==
    Cardinality({k \in DOMAIN findings : findings[k].description = description})

\* C18, as stated: for a heading followed by three blank lines and then one
\* list item, check_paragraphs_in_add_res returns exactly two 'includes an
\* empty line' Errors, and no 'includes no list items' Error.
C18_TwoEmptyLineErrors ==
    ReturnedBy("check_paragraphs_in_add_res") /\ ThreeBlankLinesThenItem =>
        /\ Described("The additional resources section includes an empty line.") = 2
        /\ Described("The additional resources section includes no list items.") = 0

\* C18, amended: for a heading followed by three blank lines and then one
\* list item, check_paragraphs_in_add_res returns exactly three 'includes an
\* empty line' Errors, one at each of the blank lines, and nothing else.
C18_ThreeEmptyLineErrors ==
    ReturnedBy("check_paragraphs_in_add_res") /\ ThreeBlankLinesThenItem =>
        /\ Len(findings) = 3
        /\ Errors
        /\ Issued =
             {<<Some(i), "The additional resources section includes an empty line.">> :
                 i \in (h + 1)..(h + 3)}

C18_Witness ==
    /\ ReturnedBy("check_paragraphs_in_add_res")
    /\ content = <<"[role=\"_additional-resources\"]", "== Additional resources",
                   "", "", "", "* a b c d">>
    /\ Len(findings) = 3

\* The number of words of the text of each list item.
WordsOfItem ==
    ("* a" :> 1) @@ ("* a b c d" :> 4) @@ ("* a b c d e" :> 5)
    @@ ("ifdef::c[* a]" :> 1)
\* The indices of the list items after the heading that are long.
LongItems ==
    {i \in IndicesOf(ListItems) : i > h /\ WordsOfItem[At(content, i)] > maximum_words}

\* C19: check_additional_resource_length returns, for each list item after
\* the heading, plain or wrapped in an ifdef, one Warning at the line of the
\* item if its text has more than four words, and nothing if it has four or
\* fewer; a wrapped item is counted as a plain one is.
C19_ItemLength ==
    EndedBy("check_additional_resource_length") =>
        /\ status = "returned"
        /\ Len(findings) = Cardinality(LongItems)
        /\ \A k \in DOMAIN findings : findings[k].severity = "Warning"
        /\ Issued =
             {<<Some(i), "The additional resource is long. Try to limit it to a couple of words.">> :
                 i \in LongItems}

-----------------------------------------------------------------------------
(* module::check and assembly::check on their own, on the same documents.  *)

MaxHeadingLines == 3

InitHeadings ==
    /\ content \in SeqsUpTo(HeadingLines, MaxHeadingLines)
    /\ called = "none"
    /\ findings = <<>>
    /\ status = "start"
    /\ NoOther

\* module::check(content)
ModuleCheck ==
    /\ status = "start"
    /\ called' = "module::check"
    /\ \E result \in {module_check(content)} :
          IF result.panicked
          THEN findings' = <<>> /\ status' = "panicked"
          ELSE findings' = result.value /\ status' = "returned"
    /\ UNCHANGED other_vars

\* assembly::check(content)
AssemblyCheck ==
    /\ status = "start"
    /\ called' = "assembly::check"
    /\ \E result \in {assembly_check(content)} :
          IF result.panicked
          THEN findings' = <<>> /\ status' = "panicked"
          ELSE findings' = result.value /\ status' = "returned"
    /\ UNCHANGED other_vars

\* assembly::check_headings_in_assembly(content)
CheckHeadingsInAssembly ==
    /\ status = "start"
    /\ called' = "check_headings_in_assembly"
    /\ findings' = check_headings_in_assembly(content)
    /\ status' = "returned"
    /\ UNCHANGED other_vars

NextHeadings == ModuleCheck \/ AssemblyCheck \/ CheckHeadingsInAssembly

SpecHeadings == InitHeadings /\ [][NextHeadings]_vars

\* The document holds one line == Custom Heading and one line
\* == Prerequisites, and no other heading of level 2 or greater.
CustomAndPrerequisites ==
    /\ Cardinality(IndicesOf({"== Custom Heading"})) = 1
    /\ Cardinality(IndicesOf({"== Prerequisites"})) = 1
    /\ \A i \in 0..(Len(content) - 1) :
          HeadingLevel(At(content, i)) >= 2 =>
              At(content, i) \in {"== Custom Heading", "== Prerequisites"}
\* The lines at which the warning about the level of a heading is issued.
LevelWarnings ==
    {f.line_number : f \in
        {g \in Range(findings) :
            /\ g.severity = "Warning"
            /\ g.description =
                 "This heading is level-2 or greater. Be conscious of the heading level."}}
LevelWarningCount ==
    Described("This heading is level-2 or greater. Be conscious of the heading level.")

\* C20: for a document that holds one == Custom Heading line and one
\* == Prerequisites line, module::check returns exactly two 'heading is
\* level-2 or greater' Warnings, one at each of the two lines, and
\* assembly::check returns exactly one, at the == Custom Heading line.
C20_HeadingAsymmetry ==
    CustomAndPrerequisites =>
        /\ EndedBy("module::check") =>
              /\ status = "returned"
              /\ LevelWarningCount = 2
              /\ LevelWarnings =
                   {Some(i) : i \in IndicesOf({"== Custom Heading", "== Prerequisites"})}
        /\ EndedBy("assembly::check") =>
              /\ status = "returned"
              /\ LevelWarningCount = 1
              /\ LevelWarnings = {Some(i) : i \in IndicesOf({"== Custom Heading"})}

\* The assembly check of a title, == Prerequisites and == Custom Heading:
\* one warning, at the last line.
C20_Witness ==
    /\ ReturnedBy("assembly::check")
    /\ content = <<"= T", "== Prerequisites", "== Custom Heading">>
    /\ LevelWarningCount = 1
    /\ LevelWarnings = {Some(2)}

\* The text of a heading line: what follows the "=" that begin it and the
\* white space after them.
HeadingText(l) ==
    LET s == Chars[l]
        k == Min({j \in (LeadingEquals(s) + 1)..Len(s) : s[j] \notin White})
    IN  SubSeq(s, k, Len(s))
\* The texts of the standard headings.
StandardTexts ==
    {Chars["Prerequisites"], Chars["Additional resources"],
     Chars["Related information"]}
\* The indices of the headings of level 2 or deeper whose text is not one of
\* the standard texts.
CustomHeadings ==
    {i \in 0..(Len(content) - 1) :
        /\ HeadingLevel(At(content, i)) >= 2
        /\ HeadingText(At(content, i)) \notin StandardTexts}

\* C21: check_headings_in_assembly returns a Warning at the line of a heading
\* of level 2 or deeper if and only if the text of the heading is not one of
\* Prerequisites, Additional resources, Related information: a standard text
\* is exempt at every level of 2 or deeper, and a heading whose text only
\* begins with a standard text is not exempt.
C21_StandardHeadings ==
    ReturnedBy("check_headings_in_assembly") =>
        /\ Len(findings) = Cardinality(CustomHeadings)
        /\ \A k \in DOMAIN findings : findings[k].severity = "Warning"
        /\ {findings[k].line_number : k \in DOMAIN findings} =
             {Some(i) : i \in CustomHeadings}

-----------------------------------------------------------------------------
(* The check of the includes: module::check_include_except_snip on its     *)
(* own, and validate on the same documents under the name of a module, of  *)
(* an assembly and of neither.                                             *)

MaxIncludeLines == 3

InitInclude ==
    /\ base_name \in ReportBaseNames
    /\ readable = TRUE
    /\ content \in SeqsUpTo(IncludeLines, MaxIncludeLines)
    /\ mod_type = "none"
    /\ reports = <<>>
    /\ stdout = <<>>
    /\ status = "start"
    /\ NoRule
    /\ NoBytes
    /\ NoRun

\* module::check_include_except_snip(content)
CheckIncludeExceptSnip ==
    /\ status = "start"
    /\ called' = "check_include_except_snip"
    /\ findings' = check_include_except_snip(content)
    /\ status' = "returned"
    /\ UNCHANGED other_vars

NextInclude == Validate \/ CheckIncludeExceptSnip

SpecInclude == InitInclude /\ [][NextInclude]_vars

PrefixOf(p, t) == Len(p) <= Len(t) /\ SubSeq(t, 1, Len(p)) = p
Within(p, t) == \E i \in 1..(Len(t) - Len(p) + 1) : SubSeq(t, i, i + Len(p) - 1) = p
\* The target of an include directive for an .adoc file: what stands between
\* "include::" at the start of the line and the end of the last ".adoc";
\* <<>> for the lines that are no such directive.
IncludeTarget(l) ==
    LET s == Chars[l]
        ends == {k \in 14..Len(s) : SubSeq(s, k - 4, k) = Chars[".adoc"]}
    IN  IF PrefixOf(Chars["include::"], s) /\ ends # {}
        THEN SubSeq(s, 10, Max(ends)) ELSE <<>>
AdocIncludes == {l \in AllLines : IncludeTarget(l) # <<>>}
\* The snippet path pattern: a file name that begins with snip_ or snip-, at
\* the start of the target or after a directory, or a path that begins with
\* common-content/.
SnippetIncludes ==
    {l \in AdocIncludes :
        \/ PrefixOf(Chars["snip_"], IncludeTarget(l))
        \/ PrefixOf(Chars["snip-"], IncludeTarget(l))
        \/ Within(Chars["/snip_"], IncludeTarget(l))
        \/ Within(Chars["/snip-"], IncludeTarget(l))
        \/ PrefixOf(Chars["common-content/"], IncludeTarget(l))}
IncludeDescriptions ==
    {"This module includes a file that appears to be a snippet. This is supported.",
     "This module includes a file that does not appear to be a snippet."}
\* The issues about includes among `issues`, as pairs of line number and
\* severity.
IncludeIssues(issues) ==
    {<<issues[k].line_number, issues[k].severity>> :
        k \in {j \in DOMAIN issues : issues[j].description \in IncludeDescriptions}}
ExpectedIncludeIssues ==
    {<<Some(i), "Information">> : i \in IndicesOf(SnippetIncludes)}
    \cup {<<Some(i), "Error">> : i \in IndicesOf(AdocIncludes \ SnippetIncludes)}

\* C22: check_include_except_snip returns, for every line that is an include
\* directive for an .adoc file, exactly one issue at that line: Information
\* when the target matches the snippet path pattern, Error otherwise, never
\* both, and nothing for other lines.  The report that validate prints holds
\* these issues for a file checked as a module, and no issue of this check
\* for a file checked as an assembly or of undetermined type.
C22_ModuleIncludes ==
    /\ ReturnedBy("check_include_except_snip") =>
          /\ IncludeIssues(findings) = ExpectedIncludeIssues
          /\ Len(findings) = Cardinality(IndicesOf(AdocIncludes))
    /\ status = "reported" =>
          IF mod_type \in {"Concept", "Procedure", "Reference"}
          THEN /\ IncludeIssues(stdout) = ExpectedIncludeIssues
               /\ Cardinality({k \in DOMAIN stdout :
                      stdout[k].description \in IncludeDescriptions})
                    = Cardinality(IndicesOf(AdocIncludes))
          ELSE IncludeIssues(stdout) = {}

\* A module with a snippet under a directory, a commented-out include and an
\* include of a module: the report holds one Information and one Error.
C22_Witness ==
    /\ status = "reported"
    /\ mod_type = "Procedure"
    /\ content = <<"include::modules/snip-a.adoc[]", "// include::con_a.adoc[]",
                   "include::con_a.adoc[]">>
    /\ IncludeIssues(stdout) = {<<Some(0), "Information">>, <<Some(2), "Error">>}


-----------------------------------------------------------------------------
(* The generation of a module (module.rs). A title, an ID and a file name  *)
(* are sequences of characters here.                                       *)

UpperCase ==
    <<"A", "B", "C", "D", "E", "F", "G", "H", "I", "J", "K", "L", "M",
      "N", "O", "P", "Q", "R", "S", "T", "U", "V", "W", "X", "Y", "Z">>
LowerCase ==
    <<"a", "b", "c", "d", "e", "f", "g", "h", "i", "j", "k", "l", "m",
      "n", "o", "p", "q", "r", "s", "t", "u", "v", "w", "x", "y", "z">>

\* A variant of to_lowercase that leaves the letters as they are.
to_lowercase_none(s) == s

\* str::to_lowercase, on the letters A to Z.
to_lowercase(s) ==
    [k \in DOMAIN s |->
        IF s[k] \in Upper
        THEN LowerCase[CHOOSE n \in DOMAIN UpperCase : UpperCase[n] = s[k]]
        ELSE s[k]]

\* str::contains(pattern), for a pattern that is not empty.
str_contains(s, pattern) ==
    \E j \in 1..(Len(s) - Len(pattern) + 1) :
        SubSeq(s, j, j + Len(pattern) - 1) = pattern

\* str::replace(old, new): every match of old that does not overlap an
\* earlier one, from the left; old is not empty.
RECURSIVE replace_from(_, _, _, _)
replace_from(s, old, new, i) ==
    IF i > Len(s) THEN <<>>
    ELSE IF i + Len(old) - 1 <= Len(s) /\ SubSeq(s, i, i + Len(old) - 1) = old
    THEN new \o replace_from(s, old, new, i + Len(old))
    ELSE <<s[i]>> \o replace_from(s, old, new, i + 1)

str_replace(s, old, new) == replace_from(s, old, new, 1)

\* The table of Input::id, without its row for the grave accent, which no
\* title of the model holds.
substitutions ==
    << <<" ", "-">>, <<"(", "">>, <<")", "">>, <<"?", "">>, <<"!", "">>,
       <<"'", "">>, <<"\"", "">>, <<"#", "">>, <<"%", "">>, <<"&", "">>,
       <<"*", "">>, <<",", "">>, <<".", "-">>, <<"/", "-">>, <<":", "-">>,
       <<";", "">>, <<"@", "-at-">>, <<"\\", "">>, <<"$", "">>, <<"^", "">>,
       <<"|", "">>,
       <<"[package]", "">>, <<"[option]", "">>, <<"[parameter]", "">>,
       <<"[variable]", "">>, <<"[command]", "">>, <<"[replaceable]", "">>,
       <<"[filename]", "">>, <<"[literal]", "">>, <<"[systemitem]", "">>,
       <<"[application]", "">>, <<"[function]", "">>, <<"[gui]", "">>,
       <<"[", "">>, <<"]", "">>, <<"{", "">>, <<"}", "">> >>

\* The loop over the table: the rows lo to hi, applied in their order.  The
\* rows are halved, and the result of the first half is computed before the
\* second half is entered, which keeps the nesting of the evaluation low.
RECURSIVE substitute_rows(_, _, _)
substitute_rows(s, lo, hi) ==
    IF lo > hi THEN s
    ELSE IF lo = hi
    THEN str_replace(s, Chars[substitutions[lo][1]],
                     Chars[substitutions[lo][2]])
    ELSE CHOOSE r \in {substitute_rows(t, ((lo + hi) \div 2) + 1, hi) :
                         t \in {substitute_rows(s, lo, (lo + hi) \div 2)}} :
             TRUE

\* The loop over the table, from row n on.
substitute_from(s, n) == substitute_rows(s, n, Len(substitutions))

\* The condition and the body of the loop that removes double dashes.
has_double_dash(s) == str_contains(s, Chars["--"])
replace_double_dash(s) == str_replace(s, Chars["--"], Chars["-"])

RECURSIVE collapse_dashes(_)
collapse_dashes(s) ==
    IF has_double_dash(s) THEN collapse_dashes(replace_double_dash(s)) ELSE s

\* The prefix of a snippet, a type that the enum of module.rs lacks and
\* that run generates.
snippet_prefix == Chars["snip_"]

\* Input::prefix; self is [mod_type, title, options, includes].
Input_prefix(self) ==
    IF self.options.prefixes
    THEN CASE self.mod_type = "Assembly" -> Chars["assembly_"]
           [] self.mod_type = "Concept" -> Chars["con_"]
           [] self.mod_type = "Procedure" -> Chars["proc_"]
           [] self.mod_type = "Reference" -> Chars["ref_"]
           [] self.mod_type = "Snippet" -> snippet_prefix
    ELSE <<>>

\* Input::id
Input_id(self) ==
    Input_prefix(self)
        \o collapse_dashes(substitute_from(to_lowercase(self.title), 1))

\* Input::file_name
Input_file_name(self) == Input_id(self) \o Chars[".adoc"]

\* Input::new
Input_new(type, title, opts) ==
    [mod_type |-> type, title |-> title, options |-> opts, includes |-> None]

(* Input::id, one statement at a time.                                     *)

MaxTitleTokens == 3

\* What the titles of the model are made of.
TitleTokens == {"A", "b", " ", "-", "@", "[gui]", "["}
ModuleTypes == {"Assembly", "Concept", "Procedure", "Reference"}

RECURSIVE Flatten(_)
Flatten(tokens) ==
    IF tokens = <<>> THEN <<>> ELSE Chars[Head(tokens)] \o Flatten(Tail(tokens))

\* No call of validate, of a check, of a rule or of line_from_byte_no.
NoValidation ==
    /\ NoFile /\ NoRule /\ NoBytes /\ content = <<>>

InitId ==
    /\ options \in [prefixes : BOOLEAN]
    /\ \E tokens \in SeqsUpTo(TitleTokens, MaxTitleTokens) :
       \E type \in ModuleTypes :
          args = Input_new(type, Flatten(tokens), options)
    /\ pc = "substitutions"
    /\ ret = <<>>
    /\ status = "start"
    /\ disk = <<>> /\ non_populated = <<>> /\ loop_index = 0 /\ log = <<>>
    /\ stdin_line = None
    /\ NoValidation

id_vars ==
    <<args, options, disk, non_populated, log, stdin_line, content,
      file_vars, rule_vars, byte_vars>>

\* Input::id, lines 75-127: the lower case and the table
Substitute ==
    /\ pc = "substitutions"
    /\ ret' = substitute_from(to_lowercase(args.title), 1)
    /\ pc' = "double dashes"
    /\ UNCHANGED <<status, loop_index, id_vars>>

\* Input::id, lines 131-133: one turn of the loop; loop_index counts the
\* turns
ReplaceDoubleDash ==
    /\ pc = "double dashes"
    /\ has_double_dash(ret)
    /\ ret' = replace_double_dash(ret)
    /\ loop_index' = loop_index + 1
    /\ UNCHANGED <<pc, status, id_vars>>

\* Input::id, lines 131, 135-137: the loop ends and the ID is returned
ReturnId ==
    /\ pc = "double dashes"
    /\ ~has_double_dash(ret)
    /\ ret' = Input_prefix(args) \o ret
    /\ pc' = "none"
    /\ status' = "returned"
    /\ UNCHANGED <<loop_index, id_vars>>

NextId == Substitute \/ ReplaceDoubleDash \/ ReturnId

SpecId == InitId /\ [][NextId]_vars

-----------------------------------------------------------------------------
(* run (lib.rs): the modules are generated and written, then the           *)
(* populated assembly, then the files given for validation are validated.  *)

\* Path::display of the components of a path.
RECURSIVE display(_)
display(components) ==
    IF components = <<>> THEN <<>>
    ELSE IF Len(components) = 1 THEN Chars[components[1]]
    ELSE Chars[components[1]] \o Chars["/"] \o display(Tail(components))

\* Input::infer_include_dir, on the components of options.target_dir as
\* they are given.
infer_include_dir(self) ==
    LET include_root ==
            IF self.mod_type = "Assembly" THEN "assemblies" ELSE "modules"
        component_vec == self.options.target_dir
        positions ==
            {k \in DOMAIN component_vec : component_vec[k] = include_root}
    IN  IF positions # {}
        THEN Some(SubSeq(component_vec, Max(positions), Len(component_vec)))
        ELSE None

\* Input::include_statement
Input_include_statement(self) ==
    LET path_placeholder == <<"<path>">>
        include_path ==
            IF self.options.detect_directory
            THEN IF infer_include_dir(self) # None
                 THEN infer_include_dir(self)[1]
                 ELSE path_placeholder
            ELSE path_placeholder
    IN  Chars["include::"] \o display(include_path) \o Chars["/"]
            \o Input_file_name(self) \o Chars["[leveloffset=+1]"]

\* Input::include
Input_include(self, include_statements) ==
    [self EXCEPT !.includes = Some(include_statements)]

\* A variant of includes_block without its assertion.
includes_block_unchecked(self) ==
    IF self.includes # None THEN Ok(self.includes[1])
    ELSE IF self.options.examples THEN Ok(<<Chars["Include modules here."]>>)
    ELSE Ok(<<>>)

\* Input::includes_block: the statements that are joined into the block, or
\* the panic of the assertion.
includes_block(self) ==
    IF self.includes # None
    THEN IF self.includes[1] = <<>> THEN Panic ELSE Ok(self.includes[1])
    ELSE IF self.options.examples THEN Ok(<<Chars["Include modules here."]>>)
    ELSE Ok(<<>>)

\* Input::text, as far as run goes: the template that is rendered and the
\* values of its fields.
Input_render(self) ==
    Then(includes_block(self), LAMBDA block :
        Ok([template |-> self.mod_type, module_title |-> self.title,
            include_statements |-> block]))

\* From<Input> for Module
Module_from(self) ==
    Then(Input_render(self), LAMBDA text :
        Ok([mod_type |-> self.mod_type, title |-> self.title,
            id |-> Input_id(self), file_name |-> Input_file_name(self),
            include_statement |-> Input_include_statement(self),
            includes |-> self.includes, text |-> text]))

\* Module::new; without includes nothing panics.
Module_new(type, title, opts) == Module_from(Input_new(type, title, opts)).value

module_type_strs ==
    <<"assembly", "concept", "procedure", "reference", "snippet">>

\* A variant of process_module_type that turns the titles around.
process_module_type_reversed(titles, module_type_str, opts) ==
    LET module_type ==
            CASE module_type_str \in {"assembly", "include-in"} -> "Assembly"
              [] module_type_str = "concept" -> "Concept"
              [] module_type_str = "procedure" -> "Procedure"
              [] module_type_str = "reference" -> "Reference"
              [] module_type_str = "snippet" -> "Snippet"
    IN  [k \in DOMAIN titles |->
            Module_new(module_type, Chars[titles[Len(titles) + 1 - k]], opts)]

\* process_module_type
process_module_type(titles, module_type_str, opts) ==
    LET module_type ==
            CASE module_type_str \in {"assembly", "include-in"} -> "Assembly"
              [] module_type_str = "concept" -> "Concept"
              [] module_type_str = "procedure" -> "Procedure"
              [] module_type_str = "reference" -> "Reference"
              [] module_type_str = "snippet" -> "Snippet"
    IN  [k \in DOMAIN titles |-> Module_new(module_type, Chars[titles[k]], opts)]

\* run, lines 115-123: the loop over the types, from type n on.
RECURSIVE generate_from(_, _, _)
generate_from(cmdline_args, opts, n) ==
    IF n > Len(module_type_strs) THEN <<>>
    ELSE process_module_type(cmdline_args[module_type_strs[n]],
                             module_type_strs[n], opts)
             \o generate_from(cmdline_args, opts, n + 1)

\* str::trim
RECURSIVE trim_start(_)
trim_start(s) ==
    IF s # <<>> /\ Head(s) \in White THEN trim_start(Tail(s)) ELSE s
RECURSIVE trim_end(_)
trim_end(s) ==
    IF s # <<>> /\ s[Len(s)] \in White
    THEN trim_end(SubSeq(s, 1, Len(s) - 1))
    ELSE s
trim(s) == trim_end(trim_start(s))

\* A variant of write_file that overwrites whatever the answer.
write_file_any_answer(module, fs, line, write_ok) ==
    IF write_ok
    THEN [result |-> "Ok", disk |-> (module.file_name :> module.text) @@ fs,
          log |-> <<"File generated">>, read |-> None]
    ELSE [result |-> "Err", disk |-> fs, log |-> <<>>, read |-> None]

\* Module::write_file(options) on the files fs of the target directory,
\* given the line that read_line reads when reading succeeds and whether
\* fs::write succeeds: the Result, the files, the messages and the line that
\* was read, if any.
write_file(module, fs, line, write_ok) ==
    LET full_path == module.file_name
        asked == <<"File already exists", "Do you want to overwrite it?">>
        written(messages) ==
            IF write_ok
            THEN [result |-> "Ok",
                  disk |-> (full_path :> module.text) @@ fs,
                  log |-> Append(messages, "File generated"), read |-> line]
            ELSE [result |-> "Err", disk |-> fs, log |-> messages,
                  read |-> line]
    IN  IF full_path \in DOMAIN fs
        THEN IF line = None
             THEN [result |-> "Err", disk |-> fs, log |-> asked, read |-> None]
             ELSE IF to_lowercase(trim(Chars[line[1]]))
                         \in {Chars["y"], Chars["yes"]}
             THEN written(Append(asked, "Rewriting the file."))
             ELSE [result |-> "Ok", disk |-> fs,
                   log |-> Append(asked, "Preserving the existing file."),
                   read |-> line]
        ELSE written(<<>>)

\* A variant of validate that returns an Err when the file cannot be read.
validate_err_on_read(file) ==
    IF ~file.readable
    THEN [outcome |-> "Err", log |-> <<"Error reading file">>, stdout |-> <<>>]
    ELSE LET checked ==
                 reports_of(determine_mod_type(file.base_name, file.content),
                            file.content)
         IN  IF checked.panicked
             THEN [outcome |-> "panicked", log |-> <<>>, stdout |-> <<>>]
             ELSE [outcome |-> "Ok", log |-> <<>>,
                   stdout |-> <<[file |-> file.base_name,
                                 issues |-> report_issues(checked.value)]>>]

\* validate(file_name): how the call ends, what it logs and what it prints;
\* a panic of a check unwinds.
validate(file) ==
    IF ~file.readable
    THEN [outcome |-> "Ok", log |-> <<"Error reading file">>, stdout |-> <<>>]
    ELSE LET checked ==
                 reports_of(determine_mod_type(file.base_name, file.content),
                            file.content)
         IN  IF checked.panicked
             THEN [outcome |-> "panicked", log |-> <<>>, stdout |-> <<>>]
             ELSE [outcome |-> "Ok", log |-> <<>>,
                   stdout |-> <<[file |-> file.base_name,
                                 issues |-> report_issues(checked.value)]>>]


MaxModules == 2
MaxValidateFiles == 3

\* The titles and the files of the command lines of the model, and the
\* lines that the user answers.
Titles == {"A", "A b"}
IncludeInTitles == {"A"}
RunFiles ==
    {[base_name |-> "a.adoc", readable |-> FALSE, content |-> <<>>],
     [base_name |-> "con_a.adoc", readable |-> TRUE, content |-> clean_module],
     [base_name |-> "a.adoc", readable |-> TRUE, content |-> <<"Text">>],
     [base_name |-> "proc_x.adoc", readable |-> TRUE,
      content |-> <<".Additional resources">>]}
Answers == {"y\n", " YES \n", "\n", "yy\n"}

\* What read_line may read when write_file is called for a file: nothing
\* is read when the file does not exist; None is a failure to read.
Lines(file_name, fs) ==
    IF file_name \in DOMAIN fs
    THEN {None} \cup {Some(answer) : answer \in Answers}
    ELSE {None}

\* The content of a file that was there before the run.
old_text ==
    [template |-> "none", module_title |-> <<>>, include_statements |-> <<>>]

\* The titles given for each type, at most n in all, from type k on.
RECURSIVE TitlesFrom(_, _)
TitlesFrom(k, n) ==
    IF k > Len(module_type_strs) THEN {<<>>}
    ELSE UNION {{<<titles>> \o rest :
                    rest \in TitlesFrom(k + 1, n - Len(titles))} :
                titles \in SeqsUpTo(Titles, n)}

\* The command lines: they generate modules or they validate files.
CommandLines ==
    {[assembly |-> t[1], concept |-> t[2], procedure |-> t[3],
      reference |-> t[4], snippet |-> t[5], include_in |-> i,
      validate |-> <<>>] :
         t \in TitlesFrom(1, MaxModules),
         i \in {None} \cup {Some(title) : title \in IncludeInTitles}}
    \cup
    {[assembly |-> <<>>, concept |-> <<>>, procedure |-> <<>>,
      reference |-> <<>>, snippet |-> <<>>, include_in |-> None,
      validate |-> files] :
         files \in SeqsUpTo(RunFiles, MaxValidateFiles) \ {<<>>}}

\* The file that the target directory may hold before the run.
OldFiles == {Chars["con_a.adoc"]}

InitRun ==
    /\ options \in [prefixes : BOOLEAN, examples : {TRUE},
                    detect_directory : {TRUE},
                    target_dir : {<<"repo", "modules", "topic">>}]
    /\ args \in CommandLines
    /\ \E existing \in SUBSET OldFiles :
          disk = [name \in existing |-> old_text]
    /\ non_populated = <<>>
    /\ pc = "generate"
    /\ loop_index = 0
    /\ log = <<>>
    /\ stdin_line = None
    /\ ret = <<>>
    /\ stdout = <<>>
    /\ status = "start"
    /\ base_name = "a.adoc" /\ readable = TRUE /\ mod_type = "none"
    /\ reports = <<>> /\ content = <<>>
    /\ NoRule
    /\ NoBytes

validation_vars ==
    <<base_name, readable, content, mod_type, reports, rule_vars, byte_vars>>

\* run, lines 110-123: the modules of every type are generated
Generate ==
    /\ pc = "generate"
    /\ non_populated' = generate_from(args, options, 1)
    /\ pc' = "write"
    /\ UNCHANGED <<args, options, disk, loop_index, log, stdin_line, ret,
                   stdout, status, validation_vars>>

\* run, lines 126-128: one turn of the loop that writes the modules
WriteModule ==
    /\ pc = "write"
    /\ loop_index < Len(non_populated)
    /\ \E line \in Lines(At(non_populated, loop_index).file_name, disk),
          write_ok \in BOOLEAN :
       \E written \in {write_file(At(non_populated, loop_index), disk, line,
                                  write_ok)} :
          /\ disk' = written.disk
          /\ log' = log \o written.log
          /\ stdin_line' = written.read
          /\ IF written.result = "Err"
             THEN /\ status' = "failed"
                  /\ pc' = "none"
                  /\ ret' = "Failed to write the file"
                  /\ UNCHANGED loop_index
             ELSE /\ loop_index' = loop_index + 1
                  /\ UNCHANGED <<status, pc, ret>>
    /\ UNCHANGED <<args, options, non_populated, stdout, validation_vars>>

\* run, lines 133-152: the populated assembly is generated and written
IncludeIn ==
    /\ pc = "write"
    /\ loop_index = Len(non_populated)
    /\ IF args.include_in = None
       THEN /\ pc' = "validate"
            /\ loop_index' = 0
            /\ UNCHANGED <<disk, log, stdin_line, ret, status>>
       ELSE \E include_statements \in
                   {[k \in DOMAIN non_populated |->
                        non_populated[k].include_statement]} :
            IF include_statements = <<>>
            THEN /\ status' = "failed"
                 /\ pc' = "none"
                 /\ ret' = "The populated assembly includes no other files."
                 /\ UNCHANGED <<disk, log, stdin_line, loop_index>>
            ELSE \E populated \in
                       {Module_from(Input_include(
                            Input_new("Assembly",
                                      Chars[args.include_in[1]], options),
                            include_statements))} :
                 IF populated.panicked
                 THEN /\ status' = "panicked"
                      /\ pc' = "none"
                      /\ UNCHANGED <<disk, log, stdin_line, ret, loop_index>>
                 ELSE \E line \in Lines(populated.value.file_name, disk),
                         write_ok \in BOOLEAN :
                      \E written \in {write_file(populated.value, disk, line,
                                                 write_ok)} :
                         /\ disk' = written.disk
                         /\ log' = log \o written.log
                         /\ stdin_line' = written.read
                         /\ IF written.result = "Err"
                            THEN /\ status' = "failed"
                                 /\ pc' = "none"
                                 /\ ret' = "Failed to write the file"
                                 /\ UNCHANGED loop_index
                            ELSE /\ pc' = "validate"
                                 /\ loop_index' = 0
                                 /\ UNCHANGED <<status, ret>>
    /\ UNCHANGED <<args, options, non_populated, stdout, validation_vars>>

\* run, lines 155-160: one turn of the loop that validates the files
ValidateFile ==
    /\ pc = "validate"
    /\ loop_index < Len(args.validate)
    /\ \E validated \in {validate(At(args.validate, loop_index))} :
          /\ log' = log \o validated.log
          /\ stdout' = stdout \o validated.stdout
          /\ IF validated.outcome = "panicked"
             THEN /\ status' = "panicked"
                  /\ pc' = "none"
                  /\ UNCHANGED <<loop_index, ret>>
             ELSE IF validated.outcome = "Err"
             THEN /\ status' = "failed"
                  /\ pc' = "none"
                  /\ ret' = "Failed to validate file"
                  /\ UNCHANGED loop_index
             ELSE /\ loop_index' = loop_index + 1
                  /\ UNCHANGED <<status, pc, ret>>
    /\ UNCHANGED <<args, options, disk, non_populated, stdin_line,
                   validation_vars>>

\* run, lines 154-162: the loop ends, or there is no file to validate, and
\* run returns Ok(())
ReturnOk ==
    /\ pc = "validate"
    /\ loop_index = Len(args.validate)
    /\ status' = "returned"
    /\ ret' = "Ok"
    /\ pc' = "none"
    /\ UNCHANGED <<args, options, disk, non_populated, loop_index, log,
                   stdin_line, stdout, validation_vars>>

NextRun == Generate \/ WriteModule \/ IncludeIn \/ ValidateFile \/ ReturnOk

SpecRun == InitRun /\ [][NextRun]_vars


(* Properties of run.                                                      *)

\* run is about to validate a file that cannot be read.
AtUnreadableFile ==
    /\ pc = "validate"
    /\ loop_index < Len(args.validate)
    /\ ~At(args.validate, loop_index).readable

Unreadable == {k \in DOMAIN args.validate : ~args.validate[k].readable}
Readable == {k \in DOMAIN args.validate : args.validate[k].readable}
ReadErrors == {k \in DOMAIN log : log[k] = "Error reading file"}

\* C23: when a file given for validation cannot be read, the failure is
\* logged, no report is printed for the file, and run goes on with the next
\* file instead of returning: a run that returns has logged one error for
\* each unreadable file and printed one report for each of the others, and
\* no run that validates files fails.
C23_ReadFailureMovesOn ==
    /\ [][AtUnreadableFile =>
              /\ log' = Append(log, "Error reading file")
              /\ stdout' = stdout
              /\ pc' = "validate"
              /\ loop_index' = loop_index + 1
              /\ status' = "start"]_vars
    /\ [](status = "returned" =>
              /\ Cardinality(ReadErrors) = Cardinality(Unreadable)
              /\ Len(stdout) = Cardinality(Readable))
    /\ [](status = "failed" => args.validate = <<>>)

\* A run that returned after an unreadable file, a readable one and an
\* unreadable one.
C23_Witness ==
    /\ status = "returned"
    /\ Len(args.validate) = 3
    /\ Unreadable = {1, 3}
    /\ Len(stdout) = 1
    /\ stdout[1].file = args.validate[2].base_name

-----------------------------------------------------------------------------
(* Options::update_from_cli (config.rs). self is the Options loaded from   *)
(* the defaults and the configuration files; cli is cli.common_options.    *)

\* The match on cli.common_options.comments, and so on in the order of the
\* function.
update_comments(self, cli) ==
    IF cli.comments = Some("Comments") THEN [self EXCEPT !.comments = TRUE]
    ELSE IF cli.comments = Some("NoComments")
    THEN [self EXCEPT !.comments = FALSE]
    ELSE self

update_file_prefixes(self, cli) ==
    IF cli.file_prefixes = Some("FilePrefixes")
    THEN [self EXCEPT !.file_prefixes = TRUE]
    ELSE IF cli.file_prefixes = Some("NoFilePrefixes")
    THEN [self EXCEPT !.comments = FALSE]
    ELSE self

update_anchor_prefixes(self, cli) ==
    IF cli.anchor_prefixes = Some("AnchorPrefixes")
    THEN [self EXCEPT !.anchor_prefixes = TRUE]
    ELSE IF cli.anchor_prefixes = Some("NoAnchorPrefixes")
    THEN [self EXCEPT !.anchor_prefixes = FALSE]
    ELSE self

update_examples(self, cli) ==
    IF cli.examples = Some("Examples") THEN [self EXCEPT !.examples = TRUE]
    ELSE IF cli.examples = Some("NoExamples")
    THEN [self EXCEPT !.examples = FALSE]
    ELSE self

update_metadata(self, cli) ==
    IF cli.metadata = Some("Metadata") THEN [self EXCEPT !.metadata = TRUE]
    ELSE IF cli.metadata = Some("NoMetadata")
    THEN [self EXCEPT !.metadata = FALSE]
    ELSE self

update_simplified(self, cli) ==
    IF cli.simplified = Some("Simplified")
    THEN [self EXCEPT !.simplified = TRUE]
    ELSE IF cli.simplified = Some("NotSimplified")
    THEN [self EXCEPT !.simplified = FALSE]
    ELSE self

update_verbosity(self, cli) ==
    IF cli.verbosity = "Verbose" THEN [self EXCEPT !.verbosity = "Verbose"]
    ELSE IF cli.verbosity = "Quiet" THEN [self EXCEPT !.verbosity = "Quiet"]
    ELSE self

update_from_cli(self, cli) ==
    [update_verbosity(
         update_simplified(
             update_metadata(
                 update_examples(
                     update_anchor_prefixes(
                         update_file_prefixes(
                             update_comments(self, cli), cli), cli), cli),
                 cli), cli), cli)
     EXCEPT !.target_dir = cli.target_dir]

\* Options::default
Options_default ==
    [comments |-> FALSE, file_prefixes |-> TRUE, anchor_prefixes |-> FALSE,
     examples |-> TRUE, simplified |-> FALSE, metadata |-> TRUE,
     verbosity |-> "Default", target_dir |-> "."]

\* The options that a configuration file may have turned around.
LoadedOptions ==
    {Options_default,
     [comments |-> TRUE, file_prefixes |-> FALSE, anchor_prefixes |-> TRUE,
      examples |-> FALSE, simplified |-> TRUE, metadata |-> FALSE,
      verbosity |-> "Quiet", target_dir |-> "."]}

\* An option that is not given, or one of its two values.
Given(on, off) == {None, Some(on), Some(off)}

CommonOptions ==
    [comments : Given("Comments", "NoComments"),
     file_prefixes : Given("FilePrefixes", "NoFilePrefixes"),
     anchor_prefixes : Given("AnchorPrefixes", "NoAnchorPrefixes"),
     examples : Given("Examples", "NoExamples"),
     metadata : Given("Metadata", "NoMetadata"),
     simplified : Given("Simplified", "NotSimplified"),
     verbosity : {"Verbose", "Default", "Quiet"},
     target_dir : {".", "modules"}]

\* No module is generated and nothing is written.
NoGeneration ==
    /\ disk = <<>> /\ non_populated = <<>> /\ loop_index = 0 /\ log = <<>>
    /\ stdin_line = None

InitOptions ==
    /\ options \in LoadedOptions
    /\ args \in CommonOptions
    /\ status = "start"
    /\ pc = "none"
    /\ ret = <<>>
    /\ stdout = <<>>
    /\ NoGeneration
    /\ base_name = "a.adoc" /\ readable = TRUE /\ mod_type = "none"
    /\ reports = <<>> /\ content = <<>>
    /\ NoRule
    /\ NoBytes

\* conf_options.update_from_cli(cli)
UpdateFromCli ==
    /\ status = "start"
    /\ options' = update_from_cli(options, args)
    /\ status' = "returned"
    /\ UNCHANGED <<args, disk, non_populated, pc, loop_index, log, stdin_line,
                   ret, stdout, validation_vars>>

NextOptions == UpdateFromCli

SpecOptions == InitOptions /\ [][NextOptions]_vars

\* The value that the command line gives to an option, TRUE for the first
\* name of its pair.
CliValue ==
    [comments |-> args.comments = Some("Comments"),
     file_prefixes |-> args.file_prefixes = Some("FilePrefixes"),
     anchor_prefixes |-> args.anchor_prefixes = Some("AnchorPrefixes"),
     examples |-> args.examples = Some("Examples"),
     metadata |-> args.metadata = Some("Metadata"),
     simplified |-> args.simplified = Some("Simplified")]

\* C24: after update_from_cli, each of comments, file_prefixes,
\* anchor_prefixes, examples, metadata and simplified holds the value given
\* on the command line when one is given and the value it had before the
\* call when none is, and target_dir holds the command line's value.
C24_UpdateFromCli ==
    [][status = "start" /\ status' = "returned" =>
           /\ \A field \in DOMAIN CliValue :
                 options'[field] =
                     IF args[field] # None THEN CliValue[field]
                     ELSE options[field]
           /\ options'.target_dir = args.target_dir]_vars

\* The claim with file_prefixes left out, and comments too where
\* no-file-prefixes is given.
C24_ApartFromFilePrefixes ==
    [][status = "start" /\ status' = "returned" =>
           /\ \A field \in DOMAIN CliValue \ {"file_prefixes"} :
                 \/ (field = "comments"
                        /\ args.file_prefixes = Some("NoFilePrefixes"))
                 \/ options'[field] =
                        IF args[field] # None THEN CliValue[field]
                        ELSE options[field]
           /\ options'.target_dir = args.target_dir]_vars

-----------------------------------------------------------------------------
(* Properties of Input::id.                                                *)

\* The single characters that the table replaces, apart from the grave
\* accent.
SubstitutedCharacters ==
    {" ", "(", ")", "?", "!", "'", "\"", "#", "%", "&", "*", ",", ".", "/",
     ":", ";", "@", "\\", "$", "^", "|", "[", "]", "{", "}"}

TypePrefix ==
    [Assembly |-> "assembly_", Concept |-> "con_", Procedure |-> "proc_",
     Reference |-> "ref_"]

ExpectedPrefix ==
    IF options.prefixes THEN Chars[TypePrefix[args.mod_type]] ELSE <<>>

\* What follows the prefix in the ID that was returned.
Converted == SubSeq(ret, Len(ExpectedPrefix) + 1, Len(ret))

IdShape ==
    status = "returned" =>
        /\ Len(ret) >= Len(ExpectedPrefix)
        /\ SubSeq(ret, 1, Len(ExpectedPrefix)) = ExpectedPrefix
        /\ \A k \in DOMAIN Converted :
              Converted[k] \notin Upper \cup SubstitutedCharacters
        /\ \A k \in 1..(Len(Converted) - 1) :
              ~(Converted[k] = "-" /\ Converted[k + 1] = "-")
        /\ Input_file_name(args) = ret \o <<".", "a", "d", "o", "c">>

\* C25: Input::id returns the prefix of the type (the empty string when
\* prefixes are disabled) followed by the converted title, which holds no
\* upper-case letter, no space, no character that the table replaces and
\* no double dash; file_name is the ID followed by `.adoc`; and the loop
\* that removes double dashes ends, because each of its turns makes the
\* string shorter.
C25_InputId ==
    /\ []IdShape
    /\ [][pc = "double dashes" /\ pc' = "double dashes" =>
              Len(ret') < Len(ret)]_vars

\* An ID was returned for a title with an upper-case letter whose
\* replacements left a double dash, with prefixes enabled.
C25_Witness ==
    /\ status = "returned"
    /\ options.prefixes
    /\ \E k \in DOMAIN args.title : args.title[k] \in Upper
    /\ has_double_dash(substitute_from(to_lowercase(args.title), 1))
    /\ Len(Converted) > 0


\* run is about to write a module whose file exists.
AtExistingFile ==
    /\ pc = "write"
    /\ loop_index < Len(non_populated)
    /\ At(non_populated, loop_index).file_name \in DOMAIN disk

\* The answers of the model that are `y` or `yes` once trimmed and put in
\* lower case.
Affirmative == {"y\n", " YES \n"}

\* run goes on with the next module.
NextModule ==
    /\ status' = "start"
    /\ pc' = "write"
    /\ loop_index' = loop_index + 1

\* C26: when the file of a module exists, write_file replaces its content
\* only when the user's answer, trimmed and in lower case, is `y` or `yes`;
\* after any other answer the files are as they were, write_file returns
\* Ok and run goes on with the next module. (When reading the answer or
\* writing the file fails, run fails and the files are as they were.)
C26_OverwriteOnlyOnYes ==
    [][AtExistingFile =>
           LET module == At(non_populated, loop_index)
           IN  \/ /\ stdin_line' # None
                  /\ stdin_line'[1] \in Affirmative
                  /\ disk' = [disk EXCEPT ![module.file_name] = module.text]
                  /\ NextModule
               \/ /\ stdin_line' # None
                  /\ stdin_line'[1] \in Answers \ Affirmative
                  /\ disk' = disk
                  /\ NextModule
               \/ /\ stdin_line' = None \/ stdin_line'[1] \in Affirmative
                  /\ disk' = disk
                  /\ status' = "failed"]_vars

\* A run that returned after it preserved the file of its first module and
\* generated the file of its second one.
C26_Witness ==
    /\ status = "returned"
    /\ Len(non_populated) = 2
    /\ disk[non_populated[1].file_name] = old_text
    /\ disk[non_populated[2].file_name] = non_populated[2].text
    /\ log = <<"File already exists", "Do you want to overwrite it?",
                "Preserving the existing file.", "File generated">>


-----------------------------------------------------------------------------
(* The populated assembly of run.                                          *)

\* The include statements of the titles given for one type, in their order
\* on the command line.
StatementsOf(type, titles) ==
    [k \in DOMAIN titles |->
        Input_include_statement(Input_new(type, Chars[titles[k]], options))]

\* The include list that the command line asks for.
ExpectedIncludes ==
    StatementsOf("Assembly", args.assembly)
        \o StatementsOf("Concept", args.concept)
        \o StatementsOf("Procedure", args.procedure)
        \o StatementsOf("Reference", args.reference)
        \o StatementsOf("Snippet", args.snippet)

\* A text of a populated assembly: an assembly with an include list of its
\* own in the place of the placeholder.
Populated(text) ==
    /\ text.template = "Assembly"
    /\ text.include_statements # <<Chars["Include modules here."]>>

\* The calls of write_file that have returned Ok(()), by their last message.
Completed(messages) ==
    Cardinality({k \in DOMAIN messages :
                    messages[k] \in {"File generated",
                                     "Preserving the existing file."}})

\* The number of modules that the command line asks for, the populated
\* assembly aside.
OtherModules ==
    Len(args.assembly) + Len(args.concept) + Len(args.procedure)
        + Len(args.reference) + Len(args.snippet)

PopulatedAfterTheOthers ==
    \A name \in DOMAIN disk :
        Populated(disk[name]) =>
            /\ args.include_in # None
            /\ OtherModules > 0
            /\ disk[name].include_statements = ExpectedIncludes
            /\ disk[name].module_title = Chars[args.include_in[1]]
            /\ Completed(log) = OtherModules + 1

NothingToInclude ==
    pc = "none" /\ args.include_in # None /\ OtherModules = 0 =>
        /\ status = "failed"
        /\ ret = "The populated assembly includes no other files."
        /\ \A name \in DOMAIN disk : disk[name] = old_text

\* A run that generates modules, and validates no file, does not panic.
NoPanicOfGeneration == args.validate = <<>> => status # "panicked"

\* C27: with the include-in option, the populated assembly is written after
\* write_file has returned for every other module of the run; its include
\* list holds the include statement of every module of the command line, in
\* the order assembly, concept, procedure, reference, snippet and in the
\* order of the command line within a type, whether the file of a module was
\* written or preserved; with no other module run returns its error and no
\* populated assembly is written; and the generation never panics, so that
\* the assertion of includes_block holds.
C27_PopulatedAssembly ==
    PopulatedAfterTheOthers /\ NothingToInclude /\ NoPanicOfGeneration

C27_Witness ==
    /\ status = "returned"
    /\ args.include_in = Some("A")
    /\ args.concept = <<"A b", "A">>
    /\ log = <<"File generated", "File already exists",
               "Do you want to overwrite it?",
               "Preserving the existing file.", "File generated">>
    /\ \E name \in DOMAIN disk :
          /\ Populated(disk[name])
          /\ Len(disk[name].include_statements) = 2


-----------------------------------------------------------------------------
(* Input::text of templating.rs, after the template is rendered.  A         *)
(* document is a sequence of pieces: a newline, or a part of a line that    *)
(* holds no newline: `Text`, the start of a line comment `// c`, or the     *)
(* delimiter of a block comment `////`.  The patterns of Input::text see    *)
(* nothing finer than these pieces.                                         *)

MaxDocumentPieces == 6
DocumentPieces == {"Text", "\n", "// c", "////"}

\* ^ in the multi-line mode, at the piece i of the document
LineStart(document, i) == i = 1 \/ document[i - 1] = "\n"

\* ^////[\s\S\n]*^////[\s]*\n with swap_greed, matched from the piece i:
\* the last piece of the match, which is the shortest one.
multi_comments(document, i) ==
    LET ends == {j \in (i + 1)..(Len(document) - 1) :
                    /\ LineStart(document, j)
                    /\ document[j] = "////"
                    /\ document[j + 1] = "\n"}
    IN  IF LineStart(document, i) /\ document[i] = "////" /\ ends # {}
        THEN Some((CHOOSE j \in ends : \A k \in ends : j <= k) + 1)
        ELSE None

\* ^//.*\n with swap_greed, matched from the piece i
single_comments(document, i) ==
    LET newlines == {j \in (i + 1)..Len(document) : document[j] = "\n"}
    IN  IF /\ LineStart(document, i)
           /\ document[i] \in {"// c", "////"}
           /\ newlines # {}
        THEN Some(CHOOSE j \in newlines : \A k \in newlines : j <= k)
        ELSE None

\* Regex::replace_all(document, ""), from the piece i on: the matches are
\* taken from the left and do not overlap.
RECURSIVE delete_multi_comments(_, _)
delete_multi_comments(document, i) ==
    IF i > Len(document) THEN <<>>
    ELSE IF multi_comments(document, i) # None
    THEN delete_multi_comments(document, multi_comments(document, i)[1] + 1)
    ELSE <<document[i]>> \o delete_multi_comments(document, i + 1)

RECURSIVE delete_single_comments(_, _)
delete_single_comments(document, i) ==
    IF i > Len(document) THEN <<>>
    ELSE IF single_comments(document, i) # None
    THEN delete_single_comments(document,
                                single_comments(document, i)[1] + 1)
    ELSE <<document[i]>> \o delete_single_comments(document, i + 1)

\* Regex::replace(document, "") of ^[\s\n]*: its first match is at the
\* start of the document.
RECURSIVE leading_whitespace(_)
leading_whitespace(document) ==
    IF document # <<>> /\ Head(document) \in White
    THEN leading_whitespace(Tail(document))
    ELSE document

\* Input::text, lines 137-160
delete_comments(document) ==
    leading_whitespace(
        delete_single_comments(delete_multi_comments(document, 1), 1))

two_blanks == <<"\n", "\n", "\n">>
one_blank == <<"\n", "\n">>

InitText ==
    /\ options \in [comments : BOOLEAN]
    /\ args \in SeqsUpTo(DocumentPieces, MaxDocumentPieces)
    /\ pc = "comments"
    /\ ret = <<>>
    /\ status = "start"
    /\ disk = <<>> /\ non_populated = <<>> /\ loop_index = 0 /\ log = <<>>
    /\ stdin_line = None
    /\ NoValidation

\* Input::text, lines 102-160: args is the rendered template
DeleteComments ==
    /\ pc = "comments"
    /\ ret' = IF options.comments THEN args ELSE delete_comments(args)
    /\ pc' = "blank lines"
    /\ UNCHANGED <<status, loop_index, id_vars>>

\* Input::text, lines 168-170: one turn of the loop; loop_index counts the
\* turns
CollapseBlankLines ==
    /\ pc = "blank lines"
    /\ str_contains(ret, two_blanks)
    /\ ret' = str_replace(ret, two_blanks, one_blank)
    /\ loop_index' = loop_index + 1
    /\ UNCHANGED <<pc, status, id_vars>>

\* Input::text, lines 168, 172-174: the loop ends and the document is
\* returned
ReturnText ==
    /\ pc = "blank lines"
    /\ ~str_contains(ret, two_blanks)
    /\ ret' = ret \o one_blank
    /\ pc' = "none"
    /\ status' = "returned"
    /\ UNCHANGED <<loop_index, id_vars>>

NextText == DeleteComments \/ CollapseBlankLines \/ ReturnText

SpecText == InitText /\ [][NextText]_vars

\* C28: the document that Input::text returns never holds three newlines
\* in a row, its end after the two appended newlines included, and every
\* turn of the loop that collapses the blank lines shortens the document,
\* so that the loop terminates.
C28_OneBlankLine ==
    /\ [](status = "returned" => ~str_contains(ret, two_blanks))
    /\ [][pc = "blank lines" /\ pc' = "blank lines" =>
              Len(ret') < Len(ret)]_vars

\* What holds of the code: the document is free of three newlines in a row
\* when the loop ends, before the two newlines are appended, and the loop
\* terminates.
C28_BeforeAppending ==
    /\ [](status = "returned" =>
              ~str_contains(SubSeq(ret, 1, Len(ret) - 2), two_blanks))
    /\ [][pc = "blank lines" /\ pc' = "blank lines" =>
              Len(ret') < Len(ret)]_vars


-----------------------------------------------------------------------------
(* The line numbers of the report.                                         *)

\* IssueReport::fmt: the line number of the stamp, if the report has one.
fmt_line_number(report) ==
    IF report.line_number # None THEN Some(report.line_number[1] + 1)
    ELSE None

\* C29: every report of validate that carries a line number carries the
\* 0-based index of a line of the content, and the number that is printed
\* for it, counted from 1, is the number of a line of the file.
C29_LineNumbersExist ==
    /\ \A k \in DOMAIN reports :
          reports[k].line_number # None =>
              reports[k].line_number[1] \in 0..(Len(content) - 1)
    /\ \A k \in DOMAIN stdout :
          fmt_line_number(stdout[k]) # None =>
              fmt_line_number(stdout[k])[1] \in 1..Len(content)

C29_Witness ==
    /\ status = "reported"
    /\ Len(content) >= 3
    /\ \E k \in DOMAIN reports :
          /\ reports[k].line_number = Some(Len(content) - 1)
          /\ fmt_line_number(stdout[k]) = Some(Len(content))
    /\ \E k \in DOMAIN reports :
          /\ reports[k].description
                 = "The additional resources section includes an empty line."
          /\ reports[k].line_number # None


-----------------------------------------------------------------------------
(* The classifier and the check of the _content-type attribute.            *)

missing_attribute_report ==
    IssueReport(None, "The module is missing the _content-type attribute.",
                "Warning")

\* C30: in the report of a file whose base name starts with none of the
\* prefixes, the Error that the module type cannot be determined comes with
\* the Warning that the _content-type attribute is missing, and the Warning
\* with the Error.
C30_ClassifierAgreesWithMarkerCheck ==
    (status = "reported" /\ NoPrefix) =>
        (type_report \in Range(reports)
             <=> missing_attribute_report \in Range(reports))

====
